---- MODULE Spec2Model ----
(***************************************************************************)
(* One RTMP connection of iotv/rtmp-tee-server as a state machine: the     *)
(* serve task of rtmp/conn.go (receiveHandshake, then the receiveChunk     *)
(* loop of rtmp/chunk.go), its bufio reader and writer over the socket,    *)
(* and a peer that sends bytes which the network delivers in segments.     *)
(*                                                                         *)
(* Bytes are naturals 0..255, byte slices are sequences (1-based: Go's     *)
(* b[i] is b[i+1] here, Go's b[i:j] is SubSeq(b, i+1, j)).                 *)
(***************************************************************************)
EXTENDS Integers, Sequences, FiniteSets, TLC

VARIABLES
    pc,          \* position of the serve goroutine
    wire,        \* bytes the peer has sent that have not arrived yet
    sock,        \* bytes that arrived on the socket, not yet read by bufr
    peerClosed,  \* the peer has shut its side down (reads end in io.EOF)
    closed,      \* c.rwc.Close() has been called
    bufr,        \* unread bytes buffered in c.bufr (bufio.Reader)
    bufw,        \* bytes buffered in c.bufw (bufio.Writer), not flushed
    bufwErr,     \* sticky error of c.bufw after a failed Flush
    out,         \* bytes written to the socket (what the peer receives)
    rd,          \* bytes gathered so far by an io.ReadFull in progress
    c1,          \* receiveHandshake local c1
    s1Random,    \* receiveHandshake local s1Random
    c2,          \* receiveHandshake local c2
    hsResult,    \* what receiveHandshake returned: "none" (not yet), "ok", "err"
    prv,         \* prvIncMsgTs, prvIncMsgTsD, prvIncMsgLen, prvIncMsgTypId, prvIncMsgStrmId
    basicHeader, \* the chunkBasicHeader receiveChunk is working on
    header,      \* the message header bytes read for that chunk
    peer,        \* what the peer has sent so far
    hsLog,       \* history: handshake I/O events in the order they happened
    chunkLog,    \* history: one record per chunk receiveChunk worked on
    emitLog,     \* history: one record per message the server emitted
    call,        \* a function called on its own: its name, arguments and result
    srv          \* Server.Serve: its accept loop and the connections it has started

vars == <<pc, wire, sock, peerClosed, closed, bufr, bufw, bufwErr, out, rd, c1,
          s1Random, c2, hsResult, prv, basicHeader, header, peer, hsLog, chunkLog,
          emitLog, call, srv>>

(***************************************************************************)
(* Bounds of the model (not program constants).                            *)
(***************************************************************************)
MaxChunks == 3      \* chunks the peer sends after the handshake (ChunkSpec)
MaxPipelined == 1   \* chunks the peer sends right behind its C2 (Spec)
MaxSegments == 2    \* partial deliveries the network makes on one connection
MaxElements == 2    \* values of an AMF0 message handed to MarshalBinary (AMFSpec)
MaxAccepted == 2    \* connections Accept returns to Serve (ServeSpec, ConnsSpec)
MaxTemporary == 10  \* temporary errors Accept returns to Serve in a row (ServeSpec)
MaxServeChunks == 1 \* chunks the peers send on all connections together (ServeSpec)

(***************************************************************************)
(* Program constants.                                                      *)
(***************************************************************************)
RTMPVersion == 3          \* C0 / S0 version byte 0x03
HandshakeLen == 1536      \* len(c1), len(c2)
RandomLen == 1528         \* len(s1Random)
BufSize == 4096           \* bufio.NewReader / bufio.NewWriter default size
TsModulus == 16777216     \* 0x01000000, the 24-bit timestamp roll-over
FirstDelay == 5           \* 5 * time.Millisecond, in ms
MaxDelay == 1000          \* 1 * time.Second, in ms

Nil == 0 - 1              \* a nil pointer (the fields it stands in for are unsigned)

\* No function is called on its own: the serve goroutine runs.
NoCall == [fn |-> "none", args |-> <<>>, ret |-> "none"]

\* Server.Serve is left out: the connection it started is the whole model.
NoServer == [pc |-> "none"]

Min(a, b) == IF a < b THEN a ELSE b

Take(s, n) == SubSeq(s, 1, Min(n, Len(s)))
Drop(s, n) == SubSeq(s, Min(n, Len(s)) + 1, Len(s))

Zeros(n) == [i \in 1..n |-> 0]

\* binary.BigEndian.Uint16 / Uint32 and the 3-byte fields read as
\* binary.BigEndian.Uint32(append([]byte{0}, header[a:b]...))
BEUint16(b) == b[1] * 256 + b[2]
BEUint24(b) == b[1] * 65536 + b[2] * 256 + b[3]
BEUint32(b) == b[1] * 16777216 + b[2] * 65536 + b[3] * 256 + b[4]

\* binary.BigEndian.PutUint32
PutUint32(v) == << (v \div 16777216) % 256, (v \div 65536) % 256, (v \div 256) % 256, v % 256 >>

(***************************************************************************)
(* bufio.Reader over the socket.                                           *)
(***************************************************************************)
\* A read of the socket returns (it no longer blocks): data arrived, the
\* socket was closed locally, or the peer closed and nothing is in flight.
SockEOF == sock = <<>> /\ peerClosed /\ wire = <<>>
SockReady == sock # <<>> \/ closed \/ SockEOF

\* bufio.Reader.Read(p) with len(p) = n > 0, as one call: what it returns and
\* what it leaves behind. At most one Read of the socket; buffered bytes are
\* served first, also after the socket has been closed.
BufRead(n) ==
    IF bufr # <<>> THEN
        [data |-> Take(bufr, n), bufr |-> Drop(bufr, n), sock |-> sock, err |-> FALSE]
    ELSE IF closed \/ sock = <<>> THEN
        [data |-> <<>>, bufr |-> <<>>, sock |-> sock, err |-> TRUE]
    ELSE IF n >= BufSize THEN
        [data |-> Take(sock, n), bufr |-> <<>>, sock |-> Drop(sock, n), err |-> FALSE]
    ELSE
        LET got == Take(sock, BufSize) IN
        [data |-> Take(got, n), bufr |-> Drop(got, n), sock |-> Drop(sock, BufSize),
         err |-> FALSE]

\* The call can return now.
BufReadReady == bufr # <<>> \/ SockReady

(***************************************************************************)
(* bufio.Writer over the socket. Every write of the program is far below   *)
(* the buffer size, so Write only appends; a failed Flush makes the error  *)
(* sticky and later writes are dropped.                                    *)
(***************************************************************************)
BufWrite(w, p) == IF w.err THEN w ELSE [w EXCEPT !.buf = w.buf \o p]

BufFlush(w) ==
    IF w.err THEN w
    ELSE IF w.buf = <<>> THEN w
    ELSE IF closed THEN [w EXCEPT !.err = TRUE]
    ELSE [w EXCEPT !.out = w.out \o w.buf, !.buf = <<>>]

Writer == [buf |-> bufw, err |-> bufwErr, out |-> out]

(***************************************************************************)
(* receiveHandshake (rtmp/conn.go).                                        *)
(***************************************************************************)
\* The I/O steps of receiveHandshake in program order. pc holds the step the
\* goroutine is at; each step is a point where it may block on the network.
\* The order of the older handshake (conn.go of the root package, lines
\* 71-153): S0 and S1 go out before C0 is read.
OlderHandshakeSteps ==
    << "writeS0S1", "flushS0S1", "readC0", "readC1", "writeS2", "flushS2", "readC2" >>

HandshakeSteps ==
    << "readC0", "readC1", "writeS0S1", "flushS0S1", "writeS2", "flushS2", "readC2" >>

HsIndex(step) == CHOOSE i \in 1..Len(HandshakeSteps) : HandshakeSteps[i] = step

HsNext(step) == HandshakeSteps[HsIndex(step) + 1]

\* crypto/rand.Read(s1Random): any 1528 bytes; two blocks stand for them.
RandomBlocks ==
    { [i \in 1..RandomLen |-> (i * 7 + 1) % 256], [i \in 1..RandomLen |-> (i * 3) % 256] }

\* A comparison that starts one byte late: c2[9:] against s1Random[1:].
AckMatchesFrom9(cc2, rnd) == SubSeq(cc2, 10, HandshakeLen) = Tail(rnd)

\* bytes.Compare(c2[8:], s1Random) == 0
AckMatches(cc2, rnd) == SubSeq(cc2, 9, HandshakeLen) = rnd

\* receiveHandshake returns to serve, which closes the socket on an error and
\* then enters its receive loop either way (conn.go lines 164-168).
HsReturn(res) ==
    /\ hsResult' = res
    /\ closed' = (res = "err")
    /\ pc' = "recv_basic"

\* A run-time panic in the serve goroutine: nothing recovers it.
Panic ==
    /\ pc' = "panic"
    /\ UNCHANGED <<hsResult, closed>>

HsAdvance(step) ==
    /\ pc' = HsNext(step)
    /\ UNCHANGED <<hsResult, closed>>

\* c0, err := c.bufr.ReadByte(); c0 != 0x03 || err != nil -> return
\* fmt.Errorf(..., err.Error()): with err == nil the call err.Error() panics.
HsReadC0 ==
    /\ pc = "readC0"
    /\ BufReadReady
    /\ LET r == BufRead(1) IN
       /\ bufr' = r.bufr
       /\ sock' = r.sock
       /\ IF r.err THEN HsReturn("err") /\ hsLog' = hsLog
          ELSE IF r.data[1] # RTMPVersion THEN Panic /\ hsLog' = hsLog
          ELSE HsAdvance("readC0") /\ hsLog' = Append(hsLog, "readC0")
    /\ UNCHANGED <<wire, peerClosed, bufw, bufwErr, out, rd, c1, s1Random, c2, prv,
                   basicHeader, header, peer, chunkLog, emitLog>>
    /\ UNCHANGED <<call, srv>>

\* io.ReadFull(c.bufr, c1): Read until 1536 bytes are in or a Read fails.
HsReadC1 ==
    /\ pc = "readC1"
    /\ BufReadReady
    /\ LET r == BufRead(HandshakeLen - Len(rd))
           got == rd \o r.data
       IN
       /\ bufr' = r.bufr
       /\ sock' = r.sock
       /\ IF r.err THEN
              /\ HsReturn("err")
              /\ rd' = <<>>
              /\ UNCHANGED <<c1, hsLog>>
          ELSE IF Len(got) < HandshakeLen THEN
              /\ rd' = got
              /\ UNCHANGED <<pc, hsResult, closed, c1, hsLog>>
          ELSE
              /\ HsAdvance("readC1")
              /\ rd' = <<>>
              /\ c1' = got
              /\ hsLog' = Append(hsLog, "readC1")
    /\ UNCHANGED <<wire, peerClosed, bufw, bufwErr, out, s1Random, c2, prv,
                   basicHeader, header, peer, chunkLog, emitLog>>
    /\ UNCHANGED <<call, srv>>

\* S0, the S1 timestamp (0), the S1 zeroes and the S1 random block go into bufw.
HsWriteS0S1 ==
    /\ pc = "writeS0S1"
    /\ \E rnd \in RandomBlocks :
        LET w == BufWrite(Writer, <<RTMPVersion>> \o PutUint32(0) \o <<0, 0, 0, 0>> \o rnd) IN
        /\ s1Random' = rnd
        /\ bufw' = w.buf
        /\ IF w.err THEN HsReturn("err") /\ hsLog' = hsLog
           ELSE HsAdvance("writeS0S1") /\ hsLog' = Append(hsLog, "writeS0S1")
    /\ UNCHANGED <<wire, sock, peerClosed, bufr, bufwErr, out, rd, c1, c2, prv,
                   basicHeader, header, peer, chunkLog, emitLog>>
    /\ UNCHANGED <<call, srv>>

\* c.bufw.Flush() after S1 and after S2.
HsFlush(step) ==
    /\ pc = step
    /\ LET w == BufFlush(Writer) IN
        /\ bufw' = w.buf
        /\ bufwErr' = w.err
        /\ out' = w.out
        /\ IF w.err THEN HsReturn("err") /\ hsLog' = hsLog
           ELSE HsAdvance(step) /\ hsLog' = Append(hsLog, step)
    /\ UNCHANGED <<wire, sock, peerClosed, bufr, rd, c1, s1Random, c2, prv,
                   basicHeader, header, peer, chunkLog, emitLog>>
    /\ UNCHANGED <<call, srv>>

HsFlushS0S1 == HsFlush("flushS0S1")

\* The S2 block of the three writes conn.go leaves commented out: the peer's
\* time stamp, a time stamp of the server, the peer's random bytes.
HsWriteS2Stamped ==
    /\ pc = "writeS2"
    /\ LET w == BufWrite(Writer, SubSeq(c1, 1, 4) \o PutUint32(1) \o SubSeq(c1, 9, HandshakeLen)) IN
        /\ bufw' = w.buf
        /\ IF w.err THEN HsReturn("err") /\ hsLog' = hsLog
           ELSE HsAdvance("writeS2") /\ hsLog' = Append(hsLog, "writeS2")
    /\ UNCHANGED <<wire, sock, peerClosed, bufr, bufwErr, out, rd, c1, s1Random, c2, prv,
                   basicHeader, header, peer, chunkLog, emitLog>>
    /\ UNCHANGED <<call, srv>>

\* c.bufw.Write(c1): S2 is C1 as it was read.
HsWriteS2 ==
    /\ pc = "writeS2"
    /\ LET w == BufWrite(Writer, c1) IN
        /\ bufw' = w.buf
        /\ IF w.err THEN HsReturn("err") /\ hsLog' = hsLog
           ELSE HsAdvance("writeS2") /\ hsLog' = Append(hsLog, "writeS2")
    /\ UNCHANGED <<wire, sock, peerClosed, bufr, bufwErr, out, rd, c1, s1Random, c2, prv,
                   basicHeader, header, peer, chunkLog, emitLog>>
    /\ UNCHANGED <<call, srv>>

HsFlushS2 == HsFlush("flushS2")

\* c1Len, err := c.bufr.Read(c2): ONE Read, which may return fewer than 1536
\* bytes with a nil error; the error branch then calls err.Error() on nil.
\* Then the comparison of c2[8:] with s1Random decides the result.
HsReadC2 ==
    /\ pc = "readC2"
    /\ BufReadReady
    /\ LET r == BufRead(HandshakeLen)
           cc2 == r.data \o Zeros(HandshakeLen - Len(r.data))
       IN
       /\ bufr' = r.bufr
       /\ sock' = r.sock
       /\ c2' = cc2
       /\ hsLog' = IF r.err THEN hsLog ELSE Append(hsLog, "readC2")
       /\ IF r.err THEN HsReturn("err")
          ELSE IF Len(r.data) # HandshakeLen THEN Panic
          ELSE IF ~AckMatches(cc2, s1Random) THEN HsReturn("err")
          ELSE HsReturn("ok")
    /\ UNCHANGED <<wire, peerClosed, bufw, bufwErr, out, rd, c1, s1Random, prv,
                   basicHeader, header, peer, chunkLog, emitLog>>
    /\ UNCHANGED <<call, srv>>

(***************************************************************************)
(* AMF0 (amf package). A Go slice is (arr, lo, hi): the backing array, and *)
(* the 0-based offsets of the slice in it; len = hi - lo, cap = Len(arr) - *)
(* lo. Indexing past len and slicing past cap panic. A number is kept as   *)
(* its 8 bytes (math.Float64frombits is one-to-one on them), a string as   *)
(* its bytes.                                                              *)
(***************************************************************************)
SliceLen(lo, hi) == hi - lo
SliceCap(arr, lo) == Len(arr) - lo
\* b[k]
At(arr, lo, k) == arr[lo + k + 1]
\* the bytes of b[x:y]
Bytes(arr, lo, x, y) == SubSeq(arr, lo + x + 1, lo + y)

AMFNumber(bits) == [t |-> "number", v |-> bits]
AMFBoolean(x) == [t |-> "boolean", v |-> x]
AMFString(str) == [t |-> "string", v |-> str]
AMFObject(o) == [t |-> "object", v |-> o]        \* an AMF0Object
AMFObjectPtr(o) == [t |-> "objectptr", v |-> o]  \* a *AMF0Object
AMFNull == [t |-> "null", v |-> <<>>]

\* (*o)[k] = v
MapPut(o, k, v) == [x \in (DOMAIN o) \cup {k} |-> IF x = k THEN v ELSE o[x]]
EmptyMap == [x \in {} |-> <<>>]

ScanErr == [st |-> "err", n |-> 0]

\* scanForAMF0ObjectEnd(b) with b = (arr, lo, hi); ScanLoop is its for loop at
\* cursor i. The result n is the returned int.
RECURSIVE ScanLoop(_, _, _, _)
RECURSIVE ScanNested(_, _, _, _, _)
scanForAMF0ObjectEnd(arr, lo, hi) ==
    IF SliceLen(lo, hi) < 1 \/ At(arr, lo, 0) # 3 THEN ScanErr
    ELSE ScanLoop(arr, lo, hi, 1)

ScanLoop(arr, lo, hi, i) ==
    LET n == SliceLen(lo, hi) IN
    IF i >= n THEN ScanErr
    ELSE IF i + 3 > n THEN ScanErr
    ELSE LET kSz == BEUint16(Bytes(arr, lo, i, i + 2)) IN
    IF kSz # 0 THEN
        IF i + 2 + kSz > n - 3 THEN ScanErr
        ELSE LET j == i + 2 + kSz
                 mk == At(arr, lo, j)
             IN
             IF mk = 0 THEN
                 IF j + 9 > n - 3 THEN ScanErr ELSE ScanLoop(arr, lo, hi, j + 9)
             ELSE IF mk = 1 THEN
                 IF j + 1 > n - 3 THEN ScanErr ELSE ScanLoop(arr, lo, hi, j + 2)
             ELSE IF mk = 2 THEN
                 IF j + 2 > n - 3 THEN ScanErr
                 ELSE LET strSz == BEUint16(Bytes(arr, lo, j + 1, j + 3)) IN
                      IF j + 2 + strSz > n - 3 THEN ScanErr
                      ELSE ScanLoop(arr, lo, hi, j + 2 + strSz + 1)
             ELSE IF mk = 3 THEN
                 IF j + 3 > n - 3 THEN ScanErr
                 ELSE ScanNested(arr, lo, hi, j, scanForAMF0ObjectEnd(arr, lo + j, hi))
             ELSE IF mk = 5 THEN ScanLoop(arr, lo, hi, j + 1)
             ELSE ScanErr
    ELSE
        \* null key sigil: i += 2; b[i] is in range because i + 3 <= len(b)
        IF At(arr, lo, i + 2) = 9 THEN [st |-> "ok", n |-> i + 3]
        ELSE ScanLoop(arr, lo, hi, i + 2)

\* case 0x03 of the loop: offset, err := scanForAMF0ObjectEnd(b[i:]) gave r;
\* i = i + offset + 1.
ScanNested(arr, lo, hi, j, r) ==
    IF r.st # "ok" THEN r
    ELSE ScanLoop(arr, lo, hi, j + r.n + 1)

ObjErr == [st |-> "err", o |-> EmptyMap]
ObjPanic == [st |-> "panic", o |-> EmptyMap]

\* AMF0Object.UnmarshalBinary(b) with b = (arr, lo, hi); ObjLoop is its for
\* loop at cursor i with the map o filled so far.
RECURSIVE ObjLoop(_, _, _, _, _)
RECURSIVE ObjNested(_, _, _, _, _, _, _)
RECURSIVE ObjPut(_, _, _, _, _, _, _)
AMF0ObjectUnmarshalBinary(arr, lo, hi) ==
    LET n == SliceLen(lo, hi) IN
    IF n < 1 \/ At(arr, lo, 0) # 3 THEN ObjErr
    ELSE IF n <= 3 \/ At(arr, lo, n - 3) # 0 \/ At(arr, lo, n - 2) # 0
            \/ At(arr, lo, n - 1) # 9 THEN ObjErr
    ELSE ObjLoop(arr, lo, hi, 1, EmptyMap)

ObjLoop(arr, lo, hi, i, o) ==
    LET n == SliceLen(lo, hi) IN
    IF i >= n - 3 THEN [st |-> "ok", o |-> o]
    ELSE IF i + 3 > n THEN ObjErr
    ELSE LET kSz == BEUint16(Bytes(arr, lo, i, i + 2)) IN
    IF kSz # 0 THEN
        IF i + 2 + kSz > n - 3 THEN ObjErr
        ELSE LET k == Bytes(arr, lo, i + 2, i + 2 + kSz)
                 j == i + 2 + kSz
                 mk == At(arr, lo, j)
             IN
             IF mk = 0 THEN
                 IF j + 9 > n - 3 THEN ObjErr
                 ELSE ObjLoop(arr, lo, hi, j + 9,
                              MapPut(o, k, AMFNumber(Bytes(arr, lo, j + 1, j + 9))))
             ELSE IF mk = 1 THEN
                 IF j + 1 > n - 3 THEN ObjErr
                 ELSE ObjLoop(arr, lo, hi, j + 2,
                              MapPut(o, k, AMFBoolean(At(arr, lo, j + 1) # 0)))
             ELSE IF mk = 2 THEN
                 IF j + 2 > n - 3 THEN ObjErr
                 ELSE LET strSz == BEUint16(Bytes(arr, lo, j + 1, j + 3)) IN
                      IF j + 2 + strSz > n - 3 THEN ObjErr
                      ELSE ObjLoop(arr, lo, hi, j + 3 + strSz,
                                   MapPut(o, k, AMFString(Bytes(arr, lo, j + 3, j + 3 + strSz))))
             ELSE IF mk = 3 THEN
                 IF j + 3 > n - 3 THEN ObjErr
                 ELSE ObjNested(arr, lo, hi, j, k, o, scanForAMF0ObjectEnd(arr, lo + j, hi))
             ELSE IF mk = 5 THEN ObjLoop(arr, lo, hi, j + 1, MapPut(o, k, AMFNull))
             ELSE ObjErr
    ELSE ObjLoop(arr, lo, hi, i + 2, o)

\* case 0x03 of the loop: the scan of b[i:] gave r; obj.UnmarshalBinary(b[i:i+offset])
ObjNested(arr, lo, hi, j, k, o, r) ==
    IF r.st # "ok" THEN ObjErr
    ELSE IF j + r.n > SliceCap(arr, lo) THEN ObjPanic
    ELSE ObjPut(arr, lo, hi, j + r.n, k, o,
                AMF0ObjectUnmarshalBinary(arr, lo + j, lo + j + r.n))

\* ... gave sub; (*o)[k] = obj; i += offset
ObjPut(arr, lo, hi, next, k, o, sub) ==
    IF sub.st # "ok" THEN sub
    ELSE ObjLoop(arr, lo, hi, next, MapPut(o, k, AMFObjectPtr(sub.o)))

MsgErr(m) == [st |-> "err", m |-> m]
MsgPanic(m) == [st |-> "panic", m |-> m]

\* AMF0Msg.UnmarshalBinary(b) with b = (arr, lo, hi); MsgLoop is its for loop
\* at cursor i; m[k+1] is (*m)[k].
RECURSIVE MsgLoop(_, _, _, _, _)
RECURSIVE MsgNested(_, _, _, _, _, _)
RECURSIVE MsgPut(_, _, _, _, _, _)
MsgLoop(arr, lo, hi, i, m) ==
    LET n == SliceLen(lo, hi)
        cp == SliceCap(arr, lo)
    IN
    IF i >= n THEN [st |-> "ok", m |-> m]
    ELSE LET mk == At(arr, lo, i) IN
    IF mk = 0 THEN
        IF i + 9 > n THEN MsgErr(m)
        ELSE MsgLoop(arr, lo, hi, i + 9, Append(m, AMFNumber(Bytes(arr, lo, i + 1, i + 9))))
    ELSE IF mk = 1 THEN
        IF i + 1 > n THEN MsgErr(m)
        ELSE IF i + 1 >= n THEN MsgPanic(m)
        ELSE MsgLoop(arr, lo, hi, i + 2, Append(m, AMFBoolean(At(arr, lo, i + 1) # 0)))
    ELSE IF mk = 2 THEN
        IF i + 2 > n THEN MsgErr(m)
        ELSE IF i + 3 > cp THEN MsgPanic(m)
        ELSE LET strSz == BEUint16(Bytes(arr, lo, i + 1, i + 3)) IN
             IF i + 2 + strSz > n THEN MsgErr(m)
             ELSE IF i + 3 + strSz > cp THEN MsgPanic(m)
             ELSE MsgLoop(arr, lo, hi, i + 3 + strSz,
                          Append(m, AMFString(Bytes(arr, lo, i + 3, i + 3 + strSz))))
    ELSE IF mk = 3 THEN
        IF i + 3 > n THEN MsgErr(m)
        ELSE MsgNested(arr, lo, hi, i, m, scanForAMF0ObjectEnd(arr, lo + i, hi))
    ELSE IF mk = 5 THEN MsgLoop(arr, lo, hi, i + 1, Append(m, AMFNull))
    ELSE MsgErr(m)

\* case 0x03 of the loop: the scan of b[i:] gave r; obj.UnmarshalBinary(b[i:i+offset])
MsgNested(arr, lo, hi, i, m, r) ==
    IF r.st # "ok" THEN MsgErr(m)
    ELSE IF i + r.n > SliceCap(arr, lo) THEN MsgPanic(m)
    ELSE MsgPut(arr, lo, hi, i + r.n, m, AMF0ObjectUnmarshalBinary(arr, lo + i, lo + i + r.n))

\* ... gave ob; (*m)[k] = obj; i += offset
MsgPut(arr, lo, hi, next, m, ob) ==
    IF ob.st = "err" THEN MsgErr(m)
    ELSE IF ob.st = "panic" THEN MsgPanic(m)
    ELSE MsgLoop(arr, lo, hi, next, Append(m, AMFObject(ob.o)))

\* amf0 := &amf.AMF0Msg{}; amf0.UnmarshalBinary(message), for a message whose
\* capacity is its length (make([]byte, n)).
AMF0MsgUnmarshalBinary(b) == MsgLoop(b, 0, Len(b), 0, <<>>)

\* binary.BigEndian.PutUint16
PutUint16(v) == << (v \div 256) % 256, v % 256 >>

MarshalErr == [err |-> TRUE, b |-> <<>>]

RECURSIVE AMF0ObjectMarshalBinary(_)

\* The switch with the string case refusing one length more
\* (len(v) >= 0xFFFE).
MarshalValueFrom0xFFFE(v) ==
    IF v.t = "number" THEN [err |-> FALSE, b |-> <<0>> \o v.v]
    ELSE IF v.t = "boolean" THEN [err |-> FALSE, b |-> <<1, IF v.v THEN 1 ELSE 0>>]
    ELSE IF v.t = "string" THEN
        IF Len(v.v) >= 65534 THEN MarshalErr
        ELSE [err |-> FALSE, b |-> <<2>> \o PutUint16(Len(v.v)) \o v.v]
    ELSE IF v.t = "object" THEN AMF0ObjectMarshalBinary(v.v)
    ELSE IF v.t = "null" THEN [err |-> FALSE, b |-> <<5>>]
    ELSE MarshalErr

\* The switch on the dynamic type of one value in MarshalBinary; an object
\* value carries its properties as the sequence in which range visits them.
MarshalValue(v) ==
    IF v.t = "number" THEN [err |-> FALSE, b |-> <<0>> \o v.v]
    ELSE IF v.t = "boolean" THEN [err |-> FALSE, b |-> <<1, IF v.v THEN 1 ELSE 0>>]
    ELSE IF v.t = "string" THEN
        IF Len(v.v) >= 65535 THEN MarshalErr
        ELSE [err |-> FALSE, b |-> <<2>> \o PutUint16(Len(v.v)) \o v.v]
    ELSE IF v.t = "object" THEN AMF0ObjectMarshalBinary(v.v)
    ELSE IF v.t = "null" THEN [err |-> FALSE, b |-> <<5>>]
    ELSE MarshalErr

\* AMF0Object.MarshalBinary: 0x03, the properties, 0x00 0x00 0x09.
RECURSIVE MarshalProperties(_, _)
MarshalProperties(props, acc) ==
    IF props = <<>> THEN [err |-> FALSE, b |-> acc \o <<0, 0, 9>>]
    ELSE LET pr == Head(props) IN
         IF Len(pr.k) >= 65535 THEN MarshalErr
         ELSE LET r == MarshalValue(pr.v) IN
              IF r.err THEN MarshalErr
              ELSE MarshalProperties(Tail(props), acc \o PutUint16(Len(pr.k)) \o pr.k \o r.b)

AMF0ObjectMarshalBinary(props) == MarshalProperties(props, <<3>>)

\* AMF0Msg.MarshalBinary for the message with keys 0..Len(m)-1.
RECURSIVE MarshalElements(_, _)
MarshalElements(m, acc) ==
    IF m = <<>> THEN [err |-> FALSE, b |-> acc]
    ELSE LET r == MarshalValue(Head(m)) IN
         IF r.err THEN MarshalErr
         ELSE MarshalElements(Tail(m), acc \o r.b)

AMF0MsgMarshalBinary(m) == MarshalElements(m, <<>>)

(***************************************************************************)
(* Strings of the program, as their bytes.                                 *)
(***************************************************************************)
StrResult == <<95, 114, 101, 115, 117, 108, 116>>                  \* "_result"
StrConnect == <<99, 111, 110, 110, 101, 99, 116>>                  \* "connect"
StrFCPublish == <<70, 67, 80, 117, 98, 108, 105, 115, 104>>        \* "FCPublish"
StrReleaseStream ==
    <<114, 101, 108, 101, 97, 115, 101, 83, 116, 114, 101, 97, 109>> \* "releaseStream"
StrCreateStream == <<99, 114, 101, 97, 116, 101, 83, 116, 114, 101, 97, 109>> \* "createStream"
StrPublish == <<112, 117, 98, 108, 105, 115, 104>>                 \* "publish"
StrLevel == <<108, 101, 118, 101, 108>>                            \* "level"
StrStatus == <<115, 116, 97, 116, 117, 115>>                       \* "status"
StrCode == <<99, 111, 100, 101>>                                   \* "code"
StrConnectSuccess ==                                               \* "NetConnection.Connect.Success"
    <<78, 101, 116, 67, 111, 110, 110, 101, 99, 116, 105, 111, 110, 46, 67, 111, 110,
      110, 101, 99, 116, 46, 83, 117, 99, 99, 101, 115, 115>>
Float1 == <<63, 240, 0, 0, 0, 0, 0, 0>>                            \* 1.0
Float2 == <<64, 0, 0, 0, 0, 0, 0, 0>>                              \* 2.0

(***************************************************************************)
(* The chunk writers (rtmp/chunk.go). w is the bufio.Writer.               *)
(***************************************************************************)
WriteErr(w) == [w |-> w, err |-> TRUE]
WriteOk(w) == [w |-> w, err |-> FALSE]

writeChunkBasicHeader(w, format, chunkStreamId) ==
    IF format > 3 THEN WriteErr(w)
    ELSE IF chunkStreamId > 65599 THEN WriteErr(w)
    ELSE IF chunkStreamId < 2 THEN WriteErr(w)
    ELSE LET fmtBits == format * 64 IN
         IF 2 <= chunkStreamId /\ chunkStreamId < 64 THEN
             WriteOk(BufWrite(w, << (chunkStreamId % 64) + fmtBits >>))
         ELSE IF 64 <= chunkStreamId /\ chunkStreamId < 320 THEN
             LET cs == PutUint32(chunkStreamId - 64) IN
             WriteOk(BufWrite(w, << (cs[3] % 64) + fmtBits, cs[4] >>))
         ELSE IF 320 <= chunkStreamId /\ chunkStreamId < 65599 THEN
             LET cs == PutUint32(chunkStreamId - 64) IN
             \* (csBytes[1] &^ 0xC0) | fmtBits | 0x01, csBytes[1] being 0 here
             WriteOk(BufWrite(w, << fmtBits + 1, cs[3], cs[4] >>))
         ELSE WriteErr(w)

ControlTypes == {1, 2, 3, 4, 5, 6}
KnownTypes == {8, 9, 15, 16, 17, 18, 19, 20, 22}

\* The older writeType0ChunkMessageHeader (conn.go of the root package, lines
\* 442-502): the errors of the two known cases are built and dropped, not
\* returned, so only the length and an unknown type are refused.
OlderWriteType0ChunkMessageHeader(w, ts, msgLen, msgType, msgStrmId, chunkStreamId) ==
    LET t == IF ts > 16777215 THEN ts % TsModulus ELSE ts IN
    IF msgLen > 16777215 THEN WriteErr(w)
    ELSE IF msgType \notin ControlTypes \cup KnownTypes THEN WriteErr(w)
    ELSE LET tsBytes == PutUint32(t)
             msgLenBytes == PutUint32(msgLen)
             msgStrmIdBytes == PutUint32(msgStrmId)
         IN
         IF w.err THEN WriteErr(w)
         ELSE WriteOk(BufWrite(w, SubSeq(tsBytes, 2, 4) \o SubSeq(msgLenBytes, 2, 4)
                                   \o <<msgType>> \o msgStrmIdBytes))

\* The header writer without the test chunkStreamId < 2 of its second case.
writeType0AnyChunkStream(w, ts, msgLen, msgType, msgStrmId, chunkStreamId) ==
    LET t == IF ts > 16777215 THEN ts % TsModulus ELSE ts IN
    IF msgLen > 16777215 THEN WriteErr(w)
    ELSE IF msgType \in ControlTypes /\ msgStrmId # 0 THEN WriteErr(w)
    ELSE IF msgType \in ControlTypes /\ chunkStreamId # 2 THEN WriteErr(w)
    ELSE IF msgType \in KnownTypes /\ chunkStreamId = 2 THEN WriteErr(w)
    ELSE IF msgType \notin ControlTypes \cup KnownTypes THEN WriteErr(w)
    ELSE LET tsBytes == PutUint32(t)
             msgLenBytes == PutUint32(msgLen)
             msgStrmIdBytes == PutUint32(msgStrmId)
         IN
         IF w.err THEN WriteErr(w)
         ELSE WriteOk(BufWrite(w, SubSeq(tsBytes, 2, 4) \o SubSeq(msgLenBytes, 2, 4)
                                   \o <<msgType>> \o msgStrmIdBytes))

writeType0ChunkMessageHeader(w, ts, msgLen, msgType, msgStrmId, chunkStreamId) ==
    LET t == IF ts > 16777215 THEN ts % TsModulus ELSE ts IN
    IF msgLen > 16777215 THEN WriteErr(w)
    ELSE IF msgType \in ControlTypes /\ msgStrmId # 0 THEN WriteErr(w)
    ELSE IF msgType \in ControlTypes /\ chunkStreamId # 2 THEN WriteErr(w)
    ELSE IF msgType \in KnownTypes /\ chunkStreamId < 2 THEN WriteErr(w)
    ELSE IF msgType \in KnownTypes /\ chunkStreamId = 2 THEN WriteErr(w)
    ELSE IF msgType \notin ControlTypes \cup KnownTypes THEN WriteErr(w)
    ELSE LET tsBytes == PutUint32(t)
             msgLenBytes == PutUint32(msgLen)
             msgStrmIdBytes == PutUint32(msgStrmId)
         IN
         IF w.err THEN WriteErr(w)
         ELSE WriteOk(BufWrite(w, SubSeq(tsBytes, 2, 4) \o SubSeq(msgLenBytes, 2, 4)
                                   \o <<msgType>> \o msgStrmIdBytes))

\* The message every writeAMF0...Success function builds; order is the order
\* in which range visits the two keys of the status object.
ResultMsg(tId, order) ==
    << AMFString(StrResult), AMFNumber(tId), AMFObject(<<>>), AMFObject(order) >>

StatusOrders ==
    { << [k |-> StrLevel, v |-> AMFString(StrStatus)],
         [k |-> StrCode, v |-> AMFString(StrConnectSuccess)] >>,
      << [k |-> StrCode, v |-> AMFString(StrConnectSuccess)],
         [k |-> StrLevel, v |-> AMFString(StrStatus)] >> }

\* writeAMF0CreateStreamSuccess(tId) and its copies writeAMF0FCPublishSuccess,
\* writeAMF0ReleaseStreamSuccess: marshal, basic header (0, 2), type-0 message
\* header (0, len(b), 20, 0, 2) with its error dropped, the payload, Flush.
WriteResult(w, mb) ==
    IF mb.err THEN w
    ELSE IF Len(mb.b) > 16777215 THEN w
    ELSE BufWrite(writeType0ChunkMessageHeader(writeChunkBasicHeader(w, 0, 2).w,
                                               0, Len(mb.b), 20, 0, 2).w,
                  mb.b)

ReplyWrites(w, tId, order) == WriteResult(w, AMF0MsgMarshalBinary(ResultMsg(tId, order)))

writeAMF0CreateStreamSuccess(w, tId, order) == BufFlush(ReplyWrites(w, tId, order))

\* writeAMF0NetConnectionConnectSuccess(): the same with transaction id 1.0.
writeAMF0NetConnectionConnectSuccess(w, order) == writeAMF0CreateStreamSuccess(w, Float1, order)

(***************************************************************************)
(* The chunk readers (rtmp/chunk.go).                                      *)
(***************************************************************************)
\* switch basicHeaderType[0] &^ 0xC0 in receiveChunkBasicHeader
BasicHeaderLen(b0) ==
    IF b0 % 64 = 0 THEN 2
    ELSE IF b0 % 64 = 1 THEN 3
    ELSE 1

\* The chunkBasicHeader receiveChunkBasicHeader returns for the header bytes bh.
ChunkBasicHeaderOf(bh) ==
    LET base == IF Len(bh) = 1 THEN bh[1] % 64
                ELSE IF Len(bh) = 2 THEN bh[2] + 64
                ELSE bh[3] * 256 + 64
    IN
    [ChunkMessageHeaderFormat |-> bh[1] \div 64,
     ChunkStreamId |-> IF Len(bh) = 2 \/ Len(bh) = 3 THEN base + 64 ELSE base]

NoPrv ==
    [prvIncMsgTs |-> Nil, prvIncMsgTsD |-> Nil, prvIncMsgLen |-> Nil,
     prvIncMsgTypId |-> Nil, prvIncMsgStrmId |-> Nil]

\* Bytes the message header of each format takes.
MessageHeaderLen(format) ==
    IF format = 0 THEN 11
    ELSE IF format = 1 THEN 7
    ELSE IF format = 2 THEN 3
    ELSE 0

\* The nil checks at the top of readType1MessageHeader, readType2MessageHeader
\* and verifyType3MessageHeader (readType0MessageHeader has none).
PriorStateMissing(p, format) ==
    IF format = 0 THEN FALSE
    ELSE IF format = 1 THEN p.prvIncMsgStrmId = Nil \/ p.prvIncMsgTs = Nil
    ELSE IF format = 2 THEN
        \/ p.prvIncMsgStrmId = Nil
        \/ p.prvIncMsgTs = Nil
        \/ p.prvIncMsgLen = Nil
        \/ p.prvIncMsgTypId = Nil
    ELSE
        \/ p.prvIncMsgStrmId = Nil
        \/ p.prvIncMsgTs = Nil
        \/ p.prvIncMsgLen = Nil
        \/ p.prvIncMsgTypId = Nil
        \/ p.prvIncMsgTsD = Nil

\* The assignments of the four functions once the header bytes are in.
readType0MessageHeader(p, hd) ==
    [p EXCEPT !.prvIncMsgTs = BEUint24(SubSeq(hd, 1, 3)),
              !.prvIncMsgLen = BEUint24(SubSeq(hd, 4, 6)),
              !.prvIncMsgTypId = hd[7],
              !.prvIncMsgStrmId = BEUint32(SubSeq(hd, 8, 11))]

\* A format-1 header read as a format-0 one reads its fields: the message
\* stream id, which the header does not carry, is stored as 0.
readType1ResetStream(p, hd) ==
    LET msgTsD == BEUint24(SubSeq(hd, 1, 3)) IN
    [p EXCEPT !.prvIncMsgTsD = msgTsD,
              !.prvIncMsgTs = (p.prvIncMsgTs + msgTsD) % TsModulus,
              !.prvIncMsgLen = BEUint24(SubSeq(hd, 4, 6)),
              !.prvIncMsgTypId = hd[7],
              !.prvIncMsgStrmId = 0]

readType1MessageHeader(p, hd) ==
    LET msgTsD == BEUint24(SubSeq(hd, 1, 3)) IN
    [p EXCEPT !.prvIncMsgTsD = msgTsD,
              !.prvIncMsgTs = (p.prvIncMsgTs + msgTsD) % TsModulus,
              !.prvIncMsgLen = BEUint24(SubSeq(hd, 4, 6)),
              !.prvIncMsgTypId = hd[7]]

\* The delta added without the roll-over.
readType2NoRoll(p, hd) ==
    LET msgTsD == BEUint24(SubSeq(hd, 1, 3)) IN
    [p EXCEPT !.prvIncMsgTsD = msgTsD,
              !.prvIncMsgTs = p.prvIncMsgTs + msgTsD]

readType2MessageHeader(p, hd) ==
    LET msgTsD == BEUint24(SubSeq(hd, 1, 3)) IN
    [p EXCEPT !.prvIncMsgTsD = msgTsD,
              !.prvIncMsgTs = (p.prvIncMsgTs + msgTsD) % TsModulus]

verifyType3MessageHeader(p) ==
    [p EXCEPT !.prvIncMsgTs = (p.prvIncMsgTs + p.prvIncMsgTsD) % TsModulus]

\* A header function that gives up its message: it stores the length 0 before
\* it returns its error.
MessageHeaderGivenUp(p, format, hd) == [p EXCEPT !.prvIncMsgLen = 0]

\* The state a header function leaves when it returns an error, for missing
\* prior state or for the hd it read being short: each return of an error
\* stands before the first assignment.
MessageHeaderRefused(p, format, hd) == p

\* The switch of receiveChunk on the header format, given the bytes read.
ReadMessageHeader(p, format, hd) ==
    IF format = 0 THEN readType0MessageHeader(p, hd)
    ELSE IF format = 1 THEN readType1MessageHeader(p, hd)
    ELSE IF format = 2 THEN readType2MessageHeader(p, hd)
    ELSE verifyType3MessageHeader(p)

\* The older serve (conn.go of the root package, lines 562-570), whose Close
\* and break are commented out: the loop goes on.
OlderServeOnChunkError == [closed |-> FALSE, pc |-> "recv_basic"]

\* What serve does when receiveChunk returns an error: c.rwc.Close(); break.
ServeOnChunkError == [closed |-> TRUE, pc |-> "done"]

\* A record of chunkLog: the chunk, how receiveChunk ended on it, the header
\* state it left and the payload bytes its Read returned.
ChunkEntry(bh, hd, result, p, data, passed, replied) ==
    [fmt |-> bh.ChunkMessageHeaderFormat, csid |-> bh.ChunkStreamId, hdr |-> hd,
     result |-> result, prv |-> p, got |-> Len(data), data |-> data, passed |-> passed,
     replied |-> replied]

\* receiveChunkBasicHeader: Peek(1), then io.ReadFull of the 1, 2 or 3 header
\* bytes. Its error comes back with a nil *chunkBasicHeader, which receiveChunk
\* reads before it looks at the error: a nil dereference.
RecvBasicHeader ==
    /\ pc = "recv_basic"
    /\ BufReadReady
    /\ LET peekFails == rd = <<>> /\ bufr = <<>> /\ (closed \/ sock = <<>>)
           first == IF rd # <<>> THEN rd[1] ELSE IF bufr # <<>> THEN bufr[1] ELSE sock[1]
       IN
       IF peekFails THEN
           /\ Panic
           /\ UNCHANGED <<bufr, sock, rd, basicHeader>>
       ELSE
           LET hl == BasicHeaderLen(first)
               r == BufRead(hl - Len(rd))
               got == rd \o r.data
           IN
           /\ bufr' = r.bufr
           /\ sock' = r.sock
           /\ IF r.err THEN
                  /\ Panic
                  /\ rd' = <<>>
                  /\ UNCHANGED basicHeader
              ELSE IF Len(got) < hl THEN
                  /\ rd' = got
                  /\ UNCHANGED <<pc, hsResult, closed, basicHeader>>
              ELSE
                  /\ rd' = <<>>
                  /\ basicHeader' = ChunkBasicHeaderOf(got)
                  /\ pc' = "recv_header"
                  /\ UNCHANGED <<hsResult, closed>>
    /\ UNCHANGED <<wire, peerClosed, bufw, bufwErr, out, c1, s1Random, c2, prv,
                   header, peer, hsLog, chunkLog, emitLog>>
    /\ UNCHANGED <<call, srv>>

\* The message header: the nil checks, then ONE c.bufr.Read of the header
\* bytes; fewer bytes than asked for is an error that receiveChunk returns.
RecvMessageHeader ==
    /\ pc = "recv_header"
    /\ LET format == basicHeader.ChunkMessageHeaderFormat
           need == MessageHeaderLen(format)
           missing == PriorStateMissing(prv, format)
           reads == ~missing /\ need > 0
       IN
       /\ reads => BufReadReady
       /\ LET r == IF reads THEN BufRead(need)
                   ELSE [data |-> <<>>, bufr |-> bufr, sock |-> sock, err |-> FALSE]
              failed == missing \/ Len(r.data) # need
          IN
          /\ bufr' = r.bufr
          /\ sock' = r.sock
          /\ IF failed THEN
                 /\ closed' = ServeOnChunkError.closed
                 /\ pc' = ServeOnChunkError.pc
                 /\ prv' = MessageHeaderRefused(prv, format, r.data)
                 /\ chunkLog' = Append(chunkLog,
                        ChunkEntry(basicHeader, r.data, "err",
                                   MessageHeaderRefused(prv, format, r.data), <<>>, FALSE, FALSE))
                 /\ UNCHANGED header
             ELSE
                 /\ prv' = ReadMessageHeader(prv, format, r.data)
                 /\ header' = r.data
                 /\ pc' = "recv_payload"
                 /\ UNCHANGED <<closed, chunkLog>>
    /\ UNCHANGED <<wire, peerClosed, bufw, bufwErr, out, rd, c1, s1Random, c2, hsResult,
                   basicHeader, peer, hsLog, emitLog>>
    /\ UNCHANGED <<call, srv>>

RecognizedWithId == {StrFCPublish, StrReleaseStream, StrCreateStream, StrPublish}

\* The switch on (*amf0)[0] once the message is decoded into u: "panic",
\* "err" (receiveChunk returns the decode error), or "ok" with the transaction
\* id of the reply to write (<<>>: no reply).
DispatchAMF0(u) ==
    IF u.st # "ok" THEN [st |-> u.st, reply |-> <<>>]
    ELSE IF u.m = <<>> THEN [st |-> "ok", reply |-> <<>>]
    ELSE IF u.m[1].t # "string" THEN [st |-> "ok", reply |-> <<>>]
    ELSE IF u.m[1].v = StrConnect THEN [st |-> "ok", reply |-> Float1]
    ELSE IF u.m[1].v \in RecognizedWithId THEN
        \* f := (*amf0)[1].(float64)
        IF Len(u.m) < 2 THEN [st |-> "panic", reply |-> <<>>]
        ELSE IF u.m[2].t # "number" THEN [st |-> "panic", reply |-> <<>>]
        ELSE [st |-> "ok", reply |-> u.m[2].v]
    ELSE [st |-> "ok", reply |-> <<>>]

\* The switch on *c.prvIncMsgTypId: only type 20 looks at the message.
Dispatch(typId, message) ==
    IF typId # 20 THEN [st |-> "ok", reply |-> <<>>]
    ELSE DispatchAMF0(AMF0MsgUnmarshalBinary(message))

\* A chunk of the reply as the writers were called for it, with the bytes
\* that went into bufw.
Emitted(tId, order, w) ==
    [fmt |-> 0, csid |-> 2, ts |-> 0, typ |-> 20, msid |-> 0,
     payload |-> AMF0MsgMarshalBinary(ResultMsg(tId, order)).b,
     bytes |-> Drop(w.buf, Len(bufw))]

\* The reply of receiveChunk to a recognized command, flushed.
Reply(tId, order, w) ==
    /\ bufw' = BufFlush(w).buf
    /\ bufwErr' = BufFlush(w).err
    /\ out' = BufFlush(w).out
    /\ emitLog' = Append(emitLog, Emitted(tId, order, w))

\* The end of receiveChunk: the payload bytes data were read and the
\* dispatch gave d.
Dispatched(data, passed, d) ==
    IF d.st = "panic" THEN
        /\ Panic
        /\ chunkLog' = Append(chunkLog,
               ChunkEntry(basicHeader, header, "panic", prv, data, passed, FALSE))
        /\ UNCHANGED <<bufw, bufwErr, out, emitLog>>
    ELSE IF d.st = "err" THEN
        /\ closed' = ServeOnChunkError.closed
        /\ pc' = ServeOnChunkError.pc
        /\ chunkLog' = Append(chunkLog,
               ChunkEntry(basicHeader, header, "err", prv, data, passed, FALSE))
        /\ UNCHANGED <<hsResult, bufw, bufwErr, out, emitLog>>
    ELSE IF d.reply = <<>> THEN
        /\ pc' = "recv_basic"
        /\ chunkLog' = Append(chunkLog,
               ChunkEntry(basicHeader, header, "ok", prv, data, passed, FALSE))
        /\ UNCHANGED <<hsResult, closed, bufw, bufwErr, out, emitLog>>
    ELSE
        /\ pc' = "recv_basic"
        /\ chunkLog' = Append(chunkLog,
               ChunkEntry(basicHeader, header, "ok", prv, data, passed, TRUE))
        /\ \E order \in StatusOrders : Reply(d.reply, order, ReplyWrites(Writer, d.reply, order))
        /\ UNCHANGED <<hsResult, closed>>

\* message := make([]byte, *c.prvIncMsgLen) filled by the one Read that gave
\* data; the message is looked at for type 20 only.
MessageOf(data) ==
    IF prv.prvIncMsgTypId = 20 THEN data \o Zeros(prv.prvIncMsgLen - Len(data)) ELSE <<>>

PayloadRead(r) ==
    /\ bufr' = r.bufr
    /\ sock' = r.sock
    /\ Dispatched(r.data, prv.prvIncMsgTypId = 20,
                  Dispatch(prv.prvIncMsgTypId, MessageOf(r.data)))

\* message := make([]byte, *c.prvIncMsgLen); c.bufr.Read(message) with the
\* result dropped: ONE Read, whatever it returns. Then the dispatch.
RecvPayload ==
    /\ pc = "recv_payload"
    /\ (prv.prvIncMsgLen > 0) => BufReadReady
    /\ PayloadRead(IF prv.prvIncMsgLen > 0 THEN BufRead(prv.prvIncMsgLen)
                   ELSE [data |-> <<>>, bufr |-> bufr, sock |-> sock, err |-> FALSE])
    /\ UNCHANGED <<wire, peerClosed, rd, c1, s1Random, c2, prv, basicHeader, header,
                   peer, hsLog>>
    /\ UNCHANGED <<call, srv>>

(***************************************************************************)
(* The peer and the network.                                               *)
(***************************************************************************)
\* C1 as a client sends it: timestamp, four zero bytes, 1528 random bytes.
PeerC1 == <<0, 0, 0, 9>> \o <<0, 0, 0, 0>> \o [i \in 1..RandomLen |-> (i * 5 + 2) % 256]

\* C0 values the peer may send.
PeerVersions == {3, 6}

\* C2 positions (1-based) at which the peer may change one byte of its echo:
\* bytes [0..8) are positions 1..8, bytes [8..1536) are positions 9..1536.
TamperAt == {1, 8, 9, 1536}

\* The echo of S1 a correct peer sends as C2: the S1 timestamp, the time it
\* read S1 (here 0), the S1 random block. S1 is out[2..1537].
PeerEcho == SubSeq(out, 2, 5) \o <<0, 0, 0, 0>> \o SubSeq(out, 10, 1 + HandshakeLen)

Tamper(block, pos) == [i \in 1..Len(block) |-> IF i = pos THEN (block[i] + 1) % 256 ELSE block[i]]

\* Chunks as a peer puts them on the wire. The message stream id of a
\* format-0 header is little-endian on the wire.
PutUint24(v) == << (v \div 65536) % 256, (v \div 256) % 256, v % 256 >>
PutUint32LE(v) == << v % 256, (v \div 256) % 256, (v \div 65536) % 256, (v \div 16777216) % 256 >>

PeerChunk0(csid, ts, len, typ, msid, payload) ==
    <<csid>> \o PutUint24(ts) \o PutUint24(len) \o <<typ>> \o PutUint32LE(msid) \o payload
PeerChunk1(csid, delta, len, typ, payload) ==
    <<64 + csid>> \o PutUint24(delta) \o PutUint24(len) \o <<typ>> \o payload
PeerChunk2(csid, delta, payload) == <<128 + csid>> \o PutUint24(delta) \o payload
PeerChunk3(csid, payload) == <<192 + csid>> \o payload

ConnectPayload == AMF0MsgMarshalBinary(<<AMFString(StrConnect), AMFNumber(Float1)>>).b
CreateStreamPayload ==
    AMF0MsgMarshalBinary(<<AMFString(StrCreateStream), AMFNumber(Float2), AMFNull>>).b

ConnectChunk == PeerChunk0(3, 10, Len(ConnectPayload), 20, 0, ConnectPayload)

\* What a peer may send as its first chunk.
PipelineMenu == { ConnectChunk, PeerChunk1(4, 5, 0, 8, <<>>) }

\* What the peer may send after C2.
ChunkMenu ==
    { ConnectChunk,
      PeerChunk0(4, 100, 0, 9, 1, <<>>),
      PeerChunk1(4, 5, 0, 8, <<>>),
      PeerChunk2(3, 5, ConnectPayload),
      PeerChunk3(3, ConnectPayload) }

\* A Set Chunk Size message (type 1, chunk stream 2, message stream 0) with
\* payload 00 00 10 00.
SetChunkSizeChunk == PeerChunk0(2, 0, 4, 1, 0, PutUint32(4096))

\* A 130-byte video message (type 9) on chunk stream 4: as a peer sends it
\* under the chunk size 128 (128 bytes, a format-3 header, 2 bytes) and as a
\* peer sends it under a chunk size of 4096 (one chunk).
LongPayload == [i \in 1..130 |-> i]
SplitMessage ==
    PeerChunk0(4, 0, Len(LongPayload), 9, 0, Take(LongPayload, 128))
        \o PeerChunk3(4, Drop(LongPayload, 128))
WholeMessage == PeerChunk0(4, 0, Len(LongPayload), 9, 0, LongPayload)

\* A format-0 header that declares the largest length the 24-bit field holds;
\* no payload follows.
OversizedHeader == PeerChunk0(4, 0, 16777215, 9, 0, <<>>)

\* What the peer of SizeSpec may send.
SizeMenu == { SetChunkSizeChunk, SplitMessage, WholeMessage, OversizedHeader }

\* An AMF0 command message (type 20) on chunk stream 3, message stream 0.
CommandChunk(payload) == PeerChunk0(3, 0, Len(payload), 20, 0, payload)

\* What the peer of CommandSpec may send: connect with transaction id 1.0 and
\* with 2.0, createStream with 2.0, and createStream with no transaction id.
CommandMenu ==
    { ConnectChunk,
      CommandChunk(AMF0MsgMarshalBinary(<<AMFString(StrConnect), AMFNumber(Float2)>>).b),
      CommandChunk(CreateStreamPayload),
      CommandChunk(AMF0MsgMarshalBinary(<<AMFString(StrCreateStream)>>).b) }

\* The extended-timestamp field a peer puts behind a message header whose
\* 24-bit timestamp (or delta) field is 0xFFFFFF: here the value 0x01000000.
PeerExtended == PutUint32(16777216)

\* What the peer of TimestampSpec may send, all on chunk stream 4 and with
\* empty messages: a format-0 chunk with timestamp 0xFFFFFE, format-1 and
\* format-2 chunks with delta 5, a format-3 chunk, and a format-0 and a
\* format-1 chunk with the field 0xFFFFFF and the extended field behind it.
TimestampMenu ==
    { PeerChunk0(4, 16777214, 0, 9, 0, <<>>),
      PeerChunk1(4, 5, 0, 9, <<>>),
      PeerChunk2(4, 5, <<>>),
      PeerChunk3(4, <<>>),
      PeerChunk0(4, 16777215, 0, 9, 0, PeerExtended),
      PeerChunk1(4, 16777215, 0, 9, PeerExtended) }

\* Sizes of the partial deliveries the network may make.
SegmentSizes == {1, 20, 1000}

Running == pc \notin {"done", "panic"}

\* How many bytes of a block of n bytes arrive at once: all of them, or, while
\* the network may still split, only the first k.
Cuts(n) == {n} \cup (IF peer.segments < MaxSegments THEN {k \in SegmentSizes : k < n} ELSE {})

\* The peer sends block; its first k bytes arrive now, the rest stays in
\* flight until DeliverRest. (A peer sends when nothing of it is in flight:
\* bytes sent behind bytes in flight arrive no earlier than those.)
Send(block, k) ==
    /\ wire = <<>>
    /\ ~peerClosed
    /\ sock' = sock \o Take(block, k)
    /\ wire' = Drop(block, k)

Segments(n, k) == IF k < n THEN peer.segments + 1 ELSE peer.segments

PeerSendC0C1 ==
    /\ Running
    /\ peer.stage = "start"
    /\ \E v \in PeerVersions, k \in Cuts(1 + HandshakeLen) :
        /\ Send(<<v>> \o PeerC1, k)
        /\ peer' = [peer EXCEPT !.stage = "c0c1", !.c0 = v,
                                !.segments = Segments(1 + HandshakeLen, k)]
    /\ UNCHANGED <<pc, peerClosed, closed, bufr, bufw, bufwErr, out, rd, c1, s1Random,
                   c2, hsResult, prv, basicHeader, header, hsLog, chunkLog, emitLog>>
    /\ UNCHANGED <<call, srv>>

\* The peer has S0 and S1 and answers with C2: the echo, the echo with one
\* byte changed, or 1536 zero bytes.
PeerC2(pos) ==
    IF pos = 0 THEN PeerEcho
    ELSE IF pos = HandshakeLen + 1 THEN Zeros(HandshakeLen)
    ELSE Tamper(PeerEcho, pos)

PeerSendC2 ==
    /\ Running
    /\ peer.stage = "c0c1"
    /\ Len(out) >= 1 + HandshakeLen
    /\ \E pos \in TamperAt \cup {0, HandshakeLen + 1}, k \in Cuts(HandshakeLen) :
        /\ Send(PeerC2(pos), k)
        /\ peer' = [peer EXCEPT !.stage = "c2", !.tamper = pos,
                                !.segments = Segments(HandshakeLen, k)]
    /\ UNCHANGED <<pc, peerClosed, closed, bufr, bufw, bufwErr, out, rd, c1, s1Random,
                   c2, hsResult, prv, basicHeader, header, hsLog, chunkLog, emitLog>>
    /\ UNCHANGED <<call, srv>>

\* The peer sends one more chunk out of menu, up to max of them.
PeerSend(menu, max) ==
    /\ Running
    /\ peer.stage = "c2"
    /\ peer.chunks < max
    /\ \E ch \in menu :
        \E k \in Cuts(Len(ch)) :
            /\ Send(ch, k)
            /\ peer' = [peer EXCEPT !.chunks = peer.chunks + 1,
                                    !.segments = Segments(Len(ch), k)]
    /\ UNCHANGED <<pc, peerClosed, closed, bufr, bufw, bufwErr, out, rd, c1, s1Random,
                   c2, hsResult, prv, basicHeader, header, hsLog, chunkLog, emitLog>>
    /\ UNCHANGED <<call, srv>>

\* A client that does not wait for the handshake to end: its first chunk comes
\* right behind C2, at any time.
PeerSendPipelined == PeerSend(PipelineMenu, MaxPipelined)

\* The serve goroutine waits for input. A send commutes with the steps the
\* goroutine can take without it, so a peer that sends only at these points
\* shows the goroutine every input it can see.
Waiting == pc \in {"recv_basic", "recv_header", "recv_payload"} /\ ~BufReadReady

PeerSendChunk == Waiting /\ PeerSend(ChunkMenu, MaxChunks)

PeerSendSized == Waiting /\ PeerSend(SizeMenu, MaxChunks)

PeerSendTimed == Waiting /\ PeerSend(TimestampMenu, MaxChunks)

PeerSendCommand == Waiting /\ PeerSend(CommandMenu, MaxChunks)

\* The connection breaks on the peer's side; what was in flight is lost.
PeerClose ==
    /\ Running
    /\ ~peerClosed
    /\ peerClosed' = TRUE
    /\ wire' = <<>>
    /\ UNCHANGED <<pc, sock, closed, bufr, bufw, bufwErr, out, rd, c1, s1Random,
                   c2, hsResult, prv, basicHeader, header, peer, hsLog, chunkLog, emitLog>>
    /\ UNCHANGED <<call, srv>>

\* The bytes still in flight arrive.
DeliverRest ==
    /\ Running
    /\ wire # <<>>
    /\ sock' = sock \o wire
    /\ wire' = <<>>
    /\ UNCHANGED <<pc, peerClosed, closed, bufr, bufw, bufwErr, out, rd, c1, s1Random,
                   c2, hsResult, prv, basicHeader, header, peer, hsLog, chunkLog, emitLog>>
    /\ UNCHANGED <<call, srv>>

Init ==
    /\ pc = HandshakeSteps[1]
    /\ wire = <<>>
    /\ sock = <<>>
    /\ peerClosed = FALSE
    /\ closed = FALSE
    /\ bufr = <<>>
    /\ bufw = <<>>
    /\ bufwErr = FALSE
    /\ out = <<>>
    /\ rd = <<>>
    /\ c1 = <<>>
    /\ s1Random = <<>>
    /\ c2 = <<>>
    /\ hsResult = "none"
    /\ prv = NoPrv
    /\ basicHeader = [ChunkMessageHeaderFormat |-> 0, ChunkStreamId |-> 0]
    /\ header = <<>>
    /\ peer = [stage |-> "start", c0 |-> 0, tamper |-> 0, chunks |-> 0, segments |-> 0]
    /\ hsLog = <<>>
    /\ chunkLog = <<>>
    /\ emitLog = <<>>
    /\ call = NoCall
    /\ srv = NoServer

Next ==
    \/ HsReadC0
    \/ HsReadC1
    \/ HsWriteS0S1
    \/ HsFlushS0S1
    \/ HsWriteS2
    \/ HsFlushS2
    \/ HsReadC2
    \/ RecvBasicHeader
    \/ RecvMessageHeader
    \/ RecvPayload
    \/ PeerSendC0C1
    \/ PeerSendC2
    \/ PeerSendPipelined
    \/ PeerClose
    \/ DeliverRest

Spec == Init /\ [][Next]_vars

(***************************************************************************)
(* The receive loop on its own: the connection right after a handshake     *)
(* that succeeded (a state Spec reaches), and a peer that sends chunks.    *)
(***************************************************************************)
HandshakeRandom == [i \in 1..RandomLen |-> (i * 7 + 1) % 256]

InitChunk ==
    /\ pc = "recv_basic"
    /\ wire = <<>>
    /\ sock = <<>>
    /\ peerClosed = FALSE
    /\ closed = FALSE
    /\ bufr = <<>>
    /\ bufw = <<>>
    /\ bufwErr = FALSE
    /\ out = <<RTMPVersion>> \o PutUint32(0) \o <<0, 0, 0, 0>> \o HandshakeRandom \o PeerC1
    /\ rd = <<>>
    /\ c1 = PeerC1
    /\ s1Random = HandshakeRandom
    /\ c2 = PutUint32(0) \o <<0, 0, 0, 0>> \o HandshakeRandom
    /\ hsResult = "ok"
    /\ prv = NoPrv
    /\ basicHeader = [ChunkMessageHeaderFormat |-> 0, ChunkStreamId |-> 0]
    /\ header = <<>>
    /\ peer = [stage |-> "c2", c0 |-> RTMPVersion, tamper |-> 0, chunks |-> 0, segments |-> 0]
    /\ hsLog = HandshakeSteps
    /\ chunkLog = <<>>
    /\ emitLog = <<>>
    /\ call = NoCall
    /\ srv = NoServer

NextChunk ==
    \/ RecvBasicHeader
    \/ RecvMessageHeader
    \/ RecvPayload
    \/ PeerSendChunk
    \/ PeerClose
    \/ DeliverRest

ChunkSpec == InitChunk /\ [][NextChunk]_vars

\* The receive loop with a peer that sets the chunk size and sends long
\* messages and large declared lengths.
NextSize ==
    \/ RecvBasicHeader
    \/ RecvMessageHeader
    \/ RecvPayload
    \/ PeerSendSized
    \/ PeerClose
    \/ DeliverRest

SizeSpec == InitChunk /\ [][NextSize]_vars

\* The receive loop with a peer whose chunks differ in their timestamps.
NextTimestamp ==
    \/ RecvBasicHeader
    \/ RecvMessageHeader
    \/ RecvPayload
    \/ PeerSendTimed
    \/ PeerClose
    \/ DeliverRest

TimestampSpec == InitChunk /\ [][NextTimestamp]_vars

\* The receive loop with a peer that sends commands.
NextCommand ==
    \/ RecvBasicHeader
    \/ RecvMessageHeader
    \/ RecvPayload
    \/ PeerSendCommand
    \/ PeerClose
    \/ DeliverRest

CommandSpec == InitChunk /\ [][NextCommand]_vars

(***************************************************************************)
(* receiveChunkBasicHeader on its own: the connection after the handshake  *)
(* with three bytes on their way, of which the function reads the basic    *)
(* header.                                                                 *)
(***************************************************************************)
\* First bytes: each format with the low six bits 0, 1, 2, 3 and 63.
HeaderFirstBytes ==
    { f * 64 + n : f \in 0..3, n \in {0, 1, 2, 3, 63} }

\* Second and third bytes.
HeaderNextBytes == {0, 1, 255}

InitBasicHeader ==
    /\ pc = "recv_basic"
    /\ \E b0 \in HeaderFirstBytes, b1 \in HeaderNextBytes, b2 \in HeaderNextBytes, k \in 1..3 :
        /\ call = [fn |-> "receiveChunkBasicHeader", args |-> <<b0, b1, b2>>, ret |-> "none"]
        /\ sock = Take(<<b0, b1, b2>>, k)
        /\ wire = Drop(<<b0, b1, b2>>, k)
        /\ peer = [stage |-> "c2", c0 |-> RTMPVersion, tamper |-> 0, chunks |-> 1,
                   segments |-> IF k < 3 THEN 1 ELSE 0]
    /\ peerClosed = FALSE
    /\ closed = FALSE
    /\ bufr = <<>>
    /\ bufw = <<>>
    /\ bufwErr = FALSE
    /\ out = <<RTMPVersion>> \o PutUint32(0) \o <<0, 0, 0, 0>> \o HandshakeRandom \o PeerC1
    /\ rd = <<>>
    /\ c1 = PeerC1
    /\ s1Random = HandshakeRandom
    /\ c2 = PutUint32(0) \o <<0, 0, 0, 0>> \o HandshakeRandom
    /\ hsResult = "ok"
    /\ prv = NoPrv
    /\ basicHeader = [ChunkMessageHeaderFormat |-> 0, ChunkStreamId |-> 0]
    /\ header = <<>>
    /\ hsLog = HandshakeSteps
    /\ chunkLog = <<>>
    /\ emitLog = <<>>
    /\ srv = NoServer

NextBasicHeader ==
    \/ RecvBasicHeader
    \/ DeliverRest

BasicHeaderSpec == InitBasicHeader /\ [][NextBasicHeader]_vars

(***************************************************************************)
(* The chunk header writers on their own: one call of writeChunkBasicHeader *)
(* or of writeType0ChunkMessageHeader on the connection after the          *)
(* handshake, with an empty bufw.                                          *)
(***************************************************************************)
\* Arguments of writeChunkBasicHeader(format uint8, chunkStreamId uint32).
BasicHeaderArgs ==
    { <<f, id>> : f \in 0..4, id \in {0, 1, 2, 63, 64, 319, 320, 65598, 65599, 65600} }

\* Arguments of writeType0ChunkMessageHeader(ts, msgLen, msgType, msgStrmId,
\* chunkStreamId).
Type0HeaderArgs ==
    { <<ts, len, typ, msid, cs>> :
        ts \in {0, 16777215, 16777221}, len \in {4, 16777215, 16777216},
        typ \in {0, 1, 5, 6, 7, 8, 14, 15, 20, 21, 22, 23}, msid \in {0, 1}, cs \in {0, 1, 2, 3} }

InitWriter ==
    /\ pc = "call"
    /\ \/ \E a \in BasicHeaderArgs :
              call = [fn |-> "writeChunkBasicHeader", args |-> a, ret |-> "none"]
       \/ \E a \in Type0HeaderArgs :
              call = [fn |-> "writeType0ChunkMessageHeader", args |-> a, ret |-> "none"]
    /\ wire = <<>>
    /\ sock = <<>>
    /\ peerClosed = FALSE
    /\ closed = FALSE
    /\ bufr = <<>>
    /\ bufw = <<>>
    /\ bufwErr = FALSE
    /\ out = <<RTMPVersion>> \o PutUint32(0) \o <<0, 0, 0, 0>> \o HandshakeRandom \o PeerC1
    /\ rd = <<>>
    /\ c1 = PeerC1
    /\ s1Random = HandshakeRandom
    /\ c2 = PutUint32(0) \o <<0, 0, 0, 0>> \o HandshakeRandom
    /\ hsResult = "ok"
    /\ prv = NoPrv
    /\ basicHeader = [ChunkMessageHeaderFormat |-> 0, ChunkStreamId |-> 0]
    /\ header = <<>>
    /\ peer = [stage |-> "c2", c0 |-> RTMPVersion, tamper |-> 0, chunks |-> 0, segments |-> 0]
    /\ hsLog = HandshakeSteps
    /\ chunkLog = <<>>
    /\ emitLog = <<>>
    /\ srv = NoServer

\* The call returns r: what it wrote is in bufw, its error in call.ret.
Returned(r) ==
    /\ bufw' = r.w.buf
    /\ call' = [call EXCEPT !.ret = IF r.err THEN "err" ELSE "nil"]
    /\ pc' = "done"
    /\ UNCHANGED <<wire, sock, peerClosed, closed, bufr, bufwErr, out, rd, c1, s1Random,
                   c2, hsResult, prv, basicHeader, header, peer, hsLog, chunkLog, emitLog,
                   srv>>

CallWriteChunkBasicHeader ==
    /\ pc = "call"
    /\ call.fn = "writeChunkBasicHeader"
    /\ Returned(writeChunkBasicHeader(Writer, call.args[1], call.args[2]))

CallWriteType0ChunkMessageHeader ==
    /\ pc = "call"
    /\ call.fn = "writeType0ChunkMessageHeader"
    /\ Returned(writeType0ChunkMessageHeader(Writer, call.args[1], call.args[2],
                                             call.args[3], call.args[4], call.args[5]))

NextWriter ==
    \/ CallWriteChunkBasicHeader
    \/ CallWriteType0ChunkMessageHeader

WriterSpec == InitWriter /\ [][NextWriter]_vars

(***************************************************************************)
(* The three functions that read or write a chunk stream id, each on its   *)
(* own: one call of receiveChunkBasicHeader on three bytes, or one call of *)
(* a header writer.                                                        *)
(***************************************************************************)
InitHeaders == InitBasicHeader \/ InitWriter

NextHeaders ==
    \/ RecvBasicHeader
    \/ DeliverRest
    \/ CallWriteChunkBasicHeader
    \/ CallWriteType0ChunkMessageHeader

HeadersSpec == InitHeaders /\ [][NextHeaders]_vars

(***************************************************************************)
(* The AMF0 encoder and decoder on their own: AMF0Msg.MarshalBinary on a   *)
(* message, AMF0Msg.UnmarshalBinary on a byte slice, and the decoder on    *)
(* what the encoder returned.                                              *)
(***************************************************************************)
\* The connection variables while a function of package amf is called on its
\* own: a connection after its handshake that nothing is done with.
IdleConnection ==
    /\ wire = <<>>
    /\ sock = <<>>
    /\ peerClosed = FALSE
    /\ closed = FALSE
    /\ bufr = <<>>
    /\ bufw = <<>>
    /\ bufwErr = FALSE
    /\ out = <<RTMPVersion>> \o PutUint32(0) \o <<0, 0, 0, 0>> \o HandshakeRandom \o PeerC1
    /\ rd = <<>>
    /\ c1 = PeerC1
    /\ s1Random = HandshakeRandom
    /\ c2 = PutUint32(0) \o <<0, 0, 0, 0>> \o HandshakeRandom
    /\ hsResult = "ok"
    /\ prv = NoPrv
    /\ basicHeader = [ChunkMessageHeaderFormat |-> 0, ChunkStreamId |-> 0]
    /\ header = <<>>
    /\ peer = [stage |-> "c2", c0 |-> RTMPVersion, tamper |-> 0, chunks |-> 0, segments |-> 0]
    /\ hsLog = HandshakeSteps
    /\ chunkLog = <<>>
    /\ emitLog = <<>>

\* A string of n bytes.
StringOfLen(n) == [i \in 1..n |-> 97]

StrA == <<97>>                                                     \* "a"
StrB == <<98>>                                                     \* "b"

\* One property of an AMF0Object.
Property(k, v) == [k |-> k, v |-> v]

\* Values of an AMF0Msg whose strings and keys are short.
ShortValues ==
    << AMFNumber(Float1), AMFBoolean(TRUE), AMFBoolean(FALSE), AMFString(<<>>),
      AMFString(StrA), AMFNull,
      AMFObject(<<>>),
      AMFObject(<<Property(StrA, AMFNumber(Float2))>>),
      AMFObject(<<Property(StrLevel, AMFString(StrStatus)), Property(StrB, AMFBoolean(TRUE))>>),
      AMFObject(<<Property(StrA, AMFObject(<<>>))>>),
      AMFObject(<<Property(StrA, AMFObject(<<Property(StrB, AMFNull)>>)),
                  Property(StrB, AMFString(StrA))>>) >>

\* The lengths around 0xFFFF.
LongLengths == {65534, 65535, 65536}

\* Values with a string or a key of n bytes: at the top level, in an object
\* and in an object of an object.
LongValues(n) ==
    << AMFString(StringOfLen(n)),
       AMFObject(<<Property(StringOfLen(n), AMFNull)>>),
       AMFObject(<<Property(StrA, AMFString(StringOfLen(n)))>>),
       AMFObject(<<Property(StrA, AMFObject(<<Property(StringOfLen(n), AMFBoolean(TRUE))>>))>> ) >>

\* The messages handed to MarshalBinary: up to MaxElements short values
\* (choice[i] is the index of the i-th one) ...
ShortMessage(choice) == [i \in DOMAIN choice |-> ShortValues[choice[i]]]

\* ... or a long value, alone or behind a null.
LongMessage(n, which, behind) ==
    IF behind THEN <<AMFNull, LongValues(n)[which]>> ELSE <<LongValues(n)[which]>>

\* Byte slices handed to UnmarshalBinary: every prefix of the encoding of a
\* short value, alone and behind a null, and slices whose length fields
\* point past their end.
Encodings == { AMF0MsgMarshalBinary(<<ShortValues[i]>>).b : i \in DOMAIN ShortValues }

UnmarshalArgs ==
    UNION { { Take(e, k) : k \in 0..Len(e) } : e \in Encodings }
      \cup UNION { { <<5>> \o Take(e, k) : k \in 1..Len(e) } : e \in Encodings }
      \cup { <<2, 0, 3, 97>>, <<2, 255, 255, 97>>, <<3, 0, 1, 97, 5>>, <<3, 0, 1, 97, 2, 0, 9, 0, 0, 9>>,
             <<3, 0, 0, 9, 1>>, <<4>>, <<6, 0>> }

\* Byte slices handed to scanForAMF0ObjectEnd: b is the encoding of an object
\* of ShortValues followed by nothing, by a null, by a number or by another
\* object; n is the length of the encoding of the object alone.
ObjectEncodings ==
    { AMF0MsgMarshalBinary(<<ShortValues[i]>>).b :
        i \in { j \in DOMAIN ShortValues : ShortValues[j].t = "object" } }

ScanArgs ==
    { [b |-> e \o rest, n |-> Len(e)] :
        e \in ObjectEncodings,
        rest \in { <<>>, <<5>>, <<0>> \o Float1 } \cup ObjectEncodings }

\* The receiver of MarshalBinary is kept in call.args by what it was chosen
\* with: the indices of its short values, or the length, the place and the
\* position of its long value.
MarshalArgs(d) ==
    IF d.long THEN LongMessage(d.n, d.which, d.behind) ELSE ShortMessage(d.choice)

\* call.of is <<d>> when call.args is what MarshalBinary returned for
\* MarshalArgs(d), and <<n>> when call.args starts with an object of n bytes
\* and is handed to scanForAMF0ObjectEnd.
InitAMF ==
    /\ pc = "call"
    /\ \/ \E n \in 0..MaxElements : \E choice \in [1..n -> DOMAIN ShortValues] :
              call = [fn |-> "AMF0Msg.MarshalBinary", args |-> [long |-> FALSE, choice |-> choice],
                      ret |-> "none", of |-> <<>>]
       \/ \E n \in LongLengths, which \in 1..4, behind \in BOOLEAN :
              call = [fn |-> "AMF0Msg.MarshalBinary",
                      args |-> [long |-> TRUE, n |-> n, which |-> which, behind |-> behind],
                      ret |-> "none", of |-> <<>>]
       \/ \E b \in UnmarshalArgs :
              call = [fn |-> "AMF0Msg.UnmarshalBinary", args |-> b, ret |-> "none", of |-> <<>>]
       \/ \E a \in ScanArgs :
              call = [fn |-> "scanForAMF0ObjectEnd", args |-> a.b, ret |-> "none", of |-> <<a.n>>]
    /\ IdleConnection
    /\ srv = NoServer

AMFFrame ==
    UNCHANGED <<wire, sock, peerClosed, closed, bufr, bufw, bufwErr, out, rd, c1, s1Random,
                c2, hsResult, prv, basicHeader, header, peer, hsLog, chunkLog, emitLog, srv>>

\* b, err := m.MarshalBinary()
CallMarshalBinary ==
    /\ pc = "call"
    /\ call.fn = "AMF0Msg.MarshalBinary"
    /\ call' = [call EXCEPT !.ret = AMF0MsgMarshalBinary(MarshalArgs(call.args))]
    /\ pc' = "done"
    /\ AMFFrame

\* The caller hands the bytes MarshalBinary returned to UnmarshalBinary.
DecodeEncoded ==
    /\ pc = "done"
    /\ call.fn = "AMF0Msg.MarshalBinary"
    /\ ~call.ret.err
    /\ call' = [fn |-> "AMF0Msg.UnmarshalBinary", args |-> call.ret.b, ret |-> "none",
                of |-> <<call.args>>]
    /\ pc' = "call"
    /\ AMFFrame

\* err := m.UnmarshalBinary(b) on an empty message m
CallUnmarshalBinary ==
    /\ pc = "call"
    /\ call.fn = "AMF0Msg.UnmarshalBinary"
    /\ call' = [call EXCEPT !.ret = AMF0MsgUnmarshalBinary(call.args)]
    /\ pc' = "done"
    /\ AMFFrame

\* objSz, err := scanForAMF0ObjectEnd(b)
CallScanForAMF0ObjectEnd ==
    /\ pc = "call"
    /\ call.fn = "scanForAMF0ObjectEnd"
    /\ call' = [call EXCEPT !.ret = scanForAMF0ObjectEnd(call.args, 0, Len(call.args))]
    /\ pc' = "done"
    /\ AMFFrame

NextAMF ==
    \/ CallMarshalBinary
    \/ DecodeEncoded
    \/ CallUnmarshalBinary
    \/ CallScanForAMF0ObjectEnd

AMFSpec == InitAMF /\ [][NextAMF]_vars

(***************************************************************************)
(* The loops of the AMF0 decoder one iteration at a time: the for loop of  *)
(* AMF0Msg.UnmarshalBinary, of AMF0Object.UnmarshalBinary and of           *)
(* scanForAMF0ObjectEnd on a slice b that is its whole array, at cursor i. *)
(* An iteration goes on to a next cursor ("next") or returns ("ok", "err") *)
(* or panics; the calls it makes on a nested object are taken whole.       *)
(***************************************************************************)
IterNext(i) == [st |-> "next", i |-> i]
IterEnd(st, i) == [st |-> st, i |-> i]

\* The null key sigil that does not move the cursor.
NullKeySigilStays(i) == i

\* } else { // null key sigil: i += 2
NullKeySigil(i) == i + 2

\* One iteration of for i < len(b) in AMF0Msg.UnmarshalBinary.
MsgIteration(b, i) ==
    LET n == Len(b)
        mk == At(b, 0, i)
    IN
    IF mk = 0 THEN IF i + 9 > n THEN IterEnd("err", i) ELSE IterNext(i + 9)
    ELSE IF mk = 1 THEN
        IF i + 1 > n THEN IterEnd("err", i)
        ELSE IF i + 1 >= n THEN IterEnd("panic", i)
        ELSE IterNext(i + 2)
    ELSE IF mk = 2 THEN
        IF i + 2 > n THEN IterEnd("err", i)
        ELSE IF i + 3 > n THEN IterEnd("panic", i)
        ELSE IF i + 2 + BEUint16(Bytes(b, 0, i + 1, i + 3)) > n THEN IterEnd("err", i)
        ELSE IF i + 3 + BEUint16(Bytes(b, 0, i + 1, i + 3)) > n THEN IterEnd("panic", i)
        ELSE IterNext(i + 3 + BEUint16(Bytes(b, 0, i + 1, i + 3)))
    ELSE IF mk = 3 THEN
        IF i + 3 > n THEN IterEnd("err", i)
        ELSE IF scanForAMF0ObjectEnd(b, i, n).st # "ok" THEN IterEnd("err", i)
        ELSE IF i + scanForAMF0ObjectEnd(b, i, n).n > n THEN IterEnd("panic", i)
        ELSE IF AMF0ObjectUnmarshalBinary(b, i, i + scanForAMF0ObjectEnd(b, i, n).n).st # "ok"
             THEN IterEnd(AMF0ObjectUnmarshalBinary(b, i, i + scanForAMF0ObjectEnd(b, i, n).n).st, i)
        ELSE IterNext(i + scanForAMF0ObjectEnd(b, i, n).n)
    ELSE IF mk = 5 THEN IterNext(i + 1)
    ELSE IterEnd("err", i)

\* The value behind a key in AMF0Object.UnmarshalBinary and in the scan: j is
\* the cursor at the type marker, extra is what the scan adds to the size of
\* a nested object (0 in UnmarshalBinary), decodes says whether the nested
\* object is decoded (UnmarshalBinary) or only scanned.
ValueIteration(b, j, extra, decodes) ==
    LET n == Len(b)
        mk == At(b, 0, j)
    IN
    IF j > n - 3 THEN IterEnd("err", j)
    ELSE IF mk = 0 THEN IF j + 9 > n - 3 THEN IterEnd("err", j) ELSE IterNext(j + 9)
    ELSE IF mk = 1 THEN IF j + 1 > n - 3 THEN IterEnd("err", j) ELSE IterNext(j + 2)
    ELSE IF mk = 2 THEN
        IF j + 2 > n - 3 THEN IterEnd("err", j)
        ELSE IF j + 2 + BEUint16(Bytes(b, 0, j + 1, j + 3)) > n - 3 THEN IterEnd("err", j)
        ELSE IterNext(j + 3 + BEUint16(Bytes(b, 0, j + 1, j + 3)))
    ELSE IF mk = 3 THEN
        IF j + 3 > n - 3 THEN IterEnd("err", j)
        ELSE IF scanForAMF0ObjectEnd(b, j, n).st # "ok" THEN IterEnd("err", j)
        ELSE IF ~decodes THEN IterNext(j + scanForAMF0ObjectEnd(b, j, n).n + extra)
        ELSE IF j + scanForAMF0ObjectEnd(b, j, n).n > n THEN IterEnd("panic", j)
        ELSE IF AMF0ObjectUnmarshalBinary(b, j, j + scanForAMF0ObjectEnd(b, j, n).n).st # "ok"
             THEN IterEnd(AMF0ObjectUnmarshalBinary(b, j, j + scanForAMF0ObjectEnd(b, j, n).n).st, j)
        ELSE IterNext(j + scanForAMF0ObjectEnd(b, j, n).n)
    ELSE IF mk = 5 THEN IterNext(j + 1)
    ELSE IterEnd("err", j)

\* One iteration of for i < (len(b) - 3) in AMF0Object.UnmarshalBinary.
ObjIteration(b, i) ==
    LET n == Len(b) IN
    IF i + 3 > n THEN IterEnd("err", i)
    ELSE IF BEUint16(Bytes(b, 0, i, i + 2)) # 0 THEN
        IF i + 2 + BEUint16(Bytes(b, 0, i, i + 2)) > n - 3 THEN IterEnd("err", i)
        ELSE ValueIteration(b, i + 2 + BEUint16(Bytes(b, 0, i, i + 2)), 0, TRUE)
    ELSE IterNext(NullKeySigil(i))

\* One iteration of for i < len(b) in scanForAMF0ObjectEnd.
ScanIteration(b, i) ==
    LET n == Len(b) IN
    IF i + 3 > n THEN IterEnd("err", i)
    ELSE IF BEUint16(Bytes(b, 0, i, i + 2)) # 0 THEN
        IF i + 2 + BEUint16(Bytes(b, 0, i, i + 2)) > n - 3 THEN IterEnd("err", i)
        ELSE ValueIteration(b, i + 2 + BEUint16(Bytes(b, 0, i, i + 2)), 1, FALSE)
    ELSE IF At(b, 0, NullKeySigil(i)) = 9 THEN IterEnd("ok", NullKeySigil(i) + 1)
    ELSE IterNext(NullKeySigil(i))

\* Byte slices handed to the loops: those handed to UnmarshalBinary and to the
\* scan, and objects with null keys inside them.
LoopArgs ==
    UnmarshalArgs \cup { a.b : a \in ScanArgs }
      \cup { <<3, 0, 0, 0, 0, 0, 9>>, <<3, 0, 0, 0, 0, 0, 0, 0, 9>>, <<3, 0, 0, 5, 0, 0, 9>>,
             <<3, 0, 0, 0, 1, 97, 5, 0, 0, 9>>, <<3, 0, 1, 97, 5, 0, 0, 0, 0, 9>>,
             <<5, 5, 1, 0, 5>> }

LoopFunctions == {"AMF0Msg.UnmarshalBinary", "AMF0Object.UnmarshalBinary", "scanForAMF0ObjectEnd"}

\* call.i is the cursor i of the function, call.iters the number of iterations
\* of its loop that went on to a next one.
InitLoops ==
    /\ pc = "call"
    /\ \E fn \in LoopFunctions, b \in LoopArgs :
           call = [fn |-> fn, args |-> b, ret |-> "none", of |-> <<>>, i |-> 0, iters |-> 0]
    /\ IdleConnection
    /\ srv = NoServer

\* The statements before the loop: i := 0, and in AMF0Object.UnmarshalBinary
\* and the scan the test of the object start marker and i += 1, in
\* AMF0Object.UnmarshalBinary the test of the last three bytes.
EnterLoop ==
    /\ pc = "call"
    /\ LET b == call.args
           n == Len(call.args)
       IN
       IF call.fn = "AMF0Msg.UnmarshalBinary"
       THEN pc' = "loop" /\ call' = call
       ELSE IF n < 1 \/ b[1] # 3
       THEN pc' = "done" /\ call' = [call EXCEPT !.ret = "err"]
       ELSE IF call.fn = "AMF0Object.UnmarshalBinary"
               /\ (n <= 3 \/ b[n - 2] # 0 \/ b[n - 1] # 0 \/ b[n] # 9)
       THEN pc' = "done" /\ call' = [call EXCEPT !.ret = "err", !.i = 1]
       ELSE pc' = "loop" /\ call' = [call EXCEPT !.i = 1]
    /\ AMFFrame

\* The loop condition of the function at cursor i.
LoopCondition(fn, b, i) ==
    IF fn = "AMF0Object.UnmarshalBinary" THEN i < Len(b) - 3 ELSE i < Len(b)

\* What the function returns when its loop condition fails: nil, and for
\* the scan the error that no object end was found.
AfterLoop(fn) == IF fn = "scanForAMF0ObjectEnd" THEN "err" ELSE "ok"

Iteration(fn, b, i) ==
    IF fn = "AMF0Msg.UnmarshalBinary" THEN MsgIteration(b, i)
    ELSE IF fn = "AMF0Object.UnmarshalBinary" THEN ObjIteration(b, i)
    ELSE ScanIteration(b, i)

\* The test of the loop condition and, when it holds, one iteration.
LoopIteration ==
    /\ pc = "loop"
    /\ call.iters <= Len(call.args)
    /\ IF ~LoopCondition(call.fn, call.args, call.i)
       THEN pc' = "done" /\ call' = [call EXCEPT !.ret = AfterLoop(call.fn)]
       ELSE LET r == Iteration(call.fn, call.args, call.i) IN
            IF r.st = "next"
            THEN pc' = "loop" /\ call' = [call EXCEPT !.i = r.i, !.iters = @ + 1]
            ELSE pc' = "done" /\ call' = [call EXCEPT !.ret = r.st, !.i = r.i]
    /\ AMFFrame

NextLoops ==
    \/ EnterLoop
    \/ LoopIteration

LoopsSpec == InitLoops /\ [][NextLoops]_vars



(***************************************************************************)
(* Server.Serve (rtmp/server.go): the accept loop, and the connections it  *)
(* starts. srv.conns[i] is the conn value of the i-th accepted socket with *)
(* the goroutine serving it, past its handshake: the bytes of that socket  *)
(* not read yet (in), the bytes read, the prior-header state and the bytes *)
(* written since the handshake. A chunk arrives whole, and receiveChunk    *)
(* runs on it as one step. Delays are in milliseconds.                     *)
(***************************************************************************)
\* c := srv.newConn(rw); go c.serve(ctx)
NewConn(rwc) ==
    [rwc |-> rwc, task |-> "running", in |-> <<>>, peerClosed |-> FALSE, closed |-> FALSE,
     read |-> 0, prv |-> NoPrv, out |-> <<>>, log |-> <<>>]

\* Serve(l) has been called and is at its first l.Accept().
ServeStarted ==
    [pc |-> "accept", tempDelay |-> 0, run |-> 0, slept |-> 0,
     listener |-> "open", ret |-> "none", ctx |-> "live", conns |-> <<>>]

\* if err != nil { c.rwc.Close(); break } in serve, behind consumed bytes.
ConnError(c, consumed) ==
    [c EXCEPT !.task = "returned", !.closed = TRUE, !.in = Drop(c.in, consumed),
              !.read = c.read + consumed]

\* A panic of the goroutine (nothing recovers it).
ConnPanic(c, consumed) ==
    [c EXCEPT !.task = "panicked", !.in = Drop(c.in, consumed), !.read = c.read + consumed]

\* The end of receiveChunk on c: the header left state p, consumed bytes of
\* c.in were read and the dispatch gave d; a reply is written and flushed.
DispatchedOn(c, order, p, consumed, d) ==
    IF d.st = "panic" THEN ConnPanic(c, consumed)
    ELSE IF d.st = "err" THEN [ConnError(c, consumed) EXCEPT !.prv = p]
    ELSE [c EXCEPT !.in = Drop(c.in, consumed), !.read = c.read + consumed, !.prv = p,
                   !.out = IF d.reply = <<>> THEN c.out
                           ELSE c.out \o ReplyWrites([buf |-> <<>>, err |-> FALSE, out |-> <<>>],
                                                     d.reply, order).buf]

\* message := make([]byte, *c.prvIncMsgLen); c.bufr.Read(message): data is
\* what the Read returned, behind hl header bytes.
PayloadOn(c, order, p, hl, data) ==
    DispatchedOn(c, order, p, hl + Len(data),
                 Dispatch(p.prvIncMsgTypId,
                          IF p.prvIncMsgTypId = 20
                          THEN data \o Zeros(p.prvIncMsgLen - Len(data)) ELSE <<>>))

\* The message header of format bh.ChunkMessageHeaderFormat behind the bl
\* bytes of the basic header.
HeaderOn(c, order, bh, bl) ==
    LET format == bh.ChunkMessageHeaderFormat
        need == MessageHeaderLen(format)
    IN
    IF PriorStateMissing(c.prv, format) THEN ConnError(c, bl)
    ELSE IF Len(c.in) < bl + need THEN ConnError(c, Len(c.in))
    ELSE PayloadOn(c, order, ReadMessageHeader(c.prv, format, SubSeq(c.in, bl + 1, bl + need)),
                   bl + need,
                   SubSeq(c.in, bl + need + 1,
                          Min(Len(c.in), bl + need
                                + ReadMessageHeader(c.prv, format,
                                      SubSeq(c.in, bl + 1, bl + need)).prvIncMsgLen)))

\* c.receiveChunk(ctx) on the conn value c, with the error handling of serve.
\* With nothing to read (the peer has closed) receiveChunkBasicHeader returns
\* a nil header, which receiveChunk dereferences.
receiveChunkOn(c, order) ==
    IF c.in = <<>> THEN ConnPanic(c, 0)
    ELSE IF Len(c.in) < BasicHeaderLen(c.in[1]) THEN ConnPanic(c, Len(c.in))
    ELSE HeaderOn(c, order, ChunkBasicHeaderOf(Take(c.in, BasicHeaderLen(c.in[1]))),
                  BasicHeaderLen(c.in[1]))

\* The conn value the goroutine of the i-th connection works on: its own,
\* with the prior-header state of the first connection (state kept in one
\* place for all connections).
TaskConnShared(conns, i) == [conns[i] EXCEPT !.prv = conns[1].prv]

\* The conn value the goroutine of the i-th connection works on: the one
\* newConn made for it.
TaskConn(conns, i) == conns[i]

\* What the peers of ServeSpec and ConnsSpec send, one chunk at a time: a
\* connect command (format 0) and a createStream command in a format 1 chunk.
ConnMenu ==
    { ConnectChunk,
      PeerChunk1(3, 5, Len(CreateStreamPayload), 20, CreateStreamPayload) }

ServeFrame ==
    UNCHANGED <<pc, wire, sock, peerClosed, closed, bufr, bufw, bufwErr, out, rd, c1,
                s1Random, c2, hsResult, prv, basicHeader, header, peer, hsLog, chunkLog,
                emitLog, call>>

\* The process runs: neither Serve nor a goroutine has panicked.
ProcessRuns == srv.pc \in {"accept", "returned"}

\* Chunks sent so far on all connections.
RECURSIVE SentOn(_, _)
SentOn(conns, i) ==
    IF i = 0 THEN 0
    ELSE SentOn(conns, i - 1) + Len(conns[i].log) + (IF conns[i].in # <<>> THEN 1 ELSE 0)

InitServe ==
    /\ pc = "idle"
    /\ call = NoCall
    /\ IdleConnection
    /\ srv = ServeStarted

\* rw, e := l.Accept() with a temporary error: the delay is set, slept, and
\* the loop continues.
AcceptTemporary ==
    /\ srv.pc = "accept"
    /\ srv.listener = "open"
    /\ srv.run < MaxTemporary
    /\ LET d == IF srv.tempDelay = 0 THEN FirstDelay ELSE srv.tempDelay * 2
           delay == IF d > MaxDelay THEN MaxDelay ELSE d
       IN srv' = [srv EXCEPT !.tempDelay = delay, !.slept = delay, !.run = srv.run + 1]
    /\ ServeFrame

\* rw, e := l.Accept() with a connection: tempDelay = 0, newConn, go c.serve.
AcceptOk ==
    /\ srv.pc = "accept"
    /\ srv.listener = "open"
    /\ Len(srv.conns) < MaxAccepted
    /\ srv' = [srv EXCEPT !.tempDelay = 0, !.slept = 0, !.run = 0,
                          !.conns = Append(srv.conns, NewConn(Len(srv.conns) + 1))]
    /\ ServeFrame

\* rw, e := l.Accept() with an error that is not temporary: return e, and the
\* deferred l.Close(), whose error (the listener is closed already) panics.
AcceptFatal ==
    /\ srv.pc = "accept"
    /\ srv' = IF srv.listener = "open"
              THEN [srv EXCEPT !.pc = "returned", !.ret = "e", !.listener = "closed"]
              ELSE [srv EXCEPT !.pc = "panic"]
    /\ ServeFrame

\* The owner of the listener closes it while Serve is in Accept.
CloseListener ==
    /\ srv.pc = "accept"
    /\ srv.listener = "open"
    /\ srv' = [srv EXCEPT !.listener = "closed"]
    /\ ServeFrame

\* The peer of connection i sends a chunk once the last one was read; max
\* chunks are sent on all connections together.
PeerSendTo(i, max) ==
    /\ ProcessRuns
    /\ srv.conns[i].task = "running"
    /\ ~srv.conns[i].peerClosed
    /\ srv.conns[i].in = <<>>
    /\ SentOn(srv.conns, Len(srv.conns)) < max
    /\ \E ch \in ConnMenu : srv' = [srv EXCEPT !.conns[i].in = ch]
    /\ ServeFrame

\* The peer of connection i closes it.
PeerCloseConn(i) ==
    /\ ProcessRuns
    /\ srv.conns[i].task = "running"
    /\ ~srv.conns[i].peerClosed
    /\ srv.conns[i].in = <<>>
    /\ srv' = [srv EXCEPT !.conns[i].peerClosed = TRUE]
    /\ ServeFrame

\* The goroutine of connection i runs receiveChunk on what has arrived; its
\* panic ends the process.
ServeChunk(i) ==
    /\ ProcessRuns
    /\ srv.conns[i].task = "running"
    /\ srv.conns[i].in # <<>> \/ srv.conns[i].peerClosed
    /\ \E order \in StatusOrders :
         LET c == [receiveChunkOn(TaskConn(srv.conns, i), order)
                      EXCEPT !.log = Append(srv.conns[i].log,
                                            [chunk |-> srv.conns[i].in, order |-> order])]
         IN srv' = [srv EXCEPT !.conns[i] = c,
                               !.pc = IF c.task = "panicked" THEN "crashed" ELSE srv.pc]
    /\ ServeFrame

NextServe ==
    \/ AcceptTemporary
    \/ AcceptOk
    \/ AcceptFatal
    \/ CloseListener
    \/ \E i \in DOMAIN srv.conns : PeerSendTo(i, MaxServeChunks)
    \/ \E i \in DOMAIN srv.conns : PeerCloseConn(i)
    \/ \E i \in DOMAIN srv.conns : ServeChunk(i)

ServeSpec == InitServe /\ [][NextServe]_vars

\* The connections alone: Accept always succeeds.
NextConns ==
    \/ AcceptOk
    \/ \E i \in DOMAIN srv.conns : PeerSendTo(i, MaxChunks)
    \/ \E i \in DOMAIN srv.conns : PeerCloseConn(i)
    \/ \E i \in DOMAIN srv.conns : ServeChunk(i)

ConnsSpec == InitServe /\ [][NextConns]_vars


(***************************************************************************)
(* The context of a connection: serve(ctx) derives a child context with    *)
(* context.WithCancel and hands it to receiveHandshake and receiveChunk,   *)
(* which hand it on and never look at it. Serve is left out; srv keeps the *)
(* state of the context it handed to serve, and the number of chunks       *)
(* receiveChunk had worked on when that context was cancelled.             *)
(***************************************************************************)
ServedWith(ctx, handled) == [pc |-> "none", ctx |-> ctx, handled |-> handled]

InitCancel ==
    /\ pc = "recv_basic"
    /\ call = NoCall
    /\ IdleConnection
    /\ srv = ServedWith("live", 0)

\* The goroutine is blocked in a read of the socket: the statement it is at
\* reads, and there is nothing to read.
Blocked ==
    /\ ~BufReadReady
    /\ \/ pc = "recv_basic"
       \/ /\ pc = "recv_header"
          /\ ~PriorStateMissing(prv, basicHeader.ChunkMessageHeaderFormat)
          /\ MessageHeaderLen(basicHeader.ChunkMessageHeaderFormat) > 0
       \/ /\ pc = "recv_payload"
          /\ prv.prvIncMsgLen > 0

\* The parent context is cancelled while the goroutine is blocked in a read
\* of the socket: Done() of the child context is closed, which no statement
\* of serve, receiveChunk or the readers waits for.
CancelContext ==
    /\ srv.ctx = "live"
    /\ Blocked
    /\ srv' = ServedWith("cancelled", Len(chunkLog))
    /\ UNCHANGED <<pc, wire, sock, peerClosed, closed, bufr, bufw, bufwErr, out, rd, c1,
                   s1Random, c2, hsResult, prv, basicHeader, header, peer, hsLog, chunkLog,
                   emitLog, call>>

NextCancel ==
    \/ RecvBasicHeader
    \/ RecvMessageHeader
    \/ RecvPayload
    \/ PeerSendTimed
    \/ PeerClose
    \/ DeliverRest
    \/ CancelContext

CancelSpec == InitCancel /\ [][NextCancel]_vars


(***************************************************************************)
(* writeChunkBasicHeader and receiveChunkBasicHeader back to back: the     *)
(* bytes the writer put into c.bufw are what the reader of a connection    *)
(* finds on its socket.                                                    *)
(***************************************************************************)
\* Formats and chunk stream ids of the 1-byte, 2-byte and 3-byte forms.
LoopbackArgs ==
    { <<f, id>> : f \in 0..3, id \in {2, 3, 63, 64, 65, 319, 320, 321, 65598, 65599} }

InitLoopback ==
    /\ pc = "call"
    /\ \E a \in LoopbackArgs :
           call = [fn |-> "writeChunkBasicHeader", args |-> a, ret |-> "none"]
    /\ IdleConnection
    /\ srv = NoServer

\* The bytes written arrive at a reader, all at once.
Loopback ==
    /\ pc = "done"
    /\ call.ret = "nil"
    /\ bufw # <<>>
    /\ sock' = bufw
    /\ bufw' = <<>>
    /\ pc' = "recv_basic"
    /\ UNCHANGED <<wire, peerClosed, closed, bufr, bufwErr, out, rd, c1, s1Random, c2,
                   hsResult, prv, basicHeader, header, peer, hsLog, chunkLog, emitLog,
                   call, srv>>

NextLoopback ==
    \/ CallWriteChunkBasicHeader
    \/ Loopback
    \/ RecvBasicHeader

LoopbackSpec == InitLoopback /\ [][NextLoopback]_vars


(***************************************************************************)
(* The handshake properties, checked under Spec.                           *)
(***************************************************************************)
\* receiveHandshake returned after its Read of C2 gave data without an error;
\* a Read of fewer than 1536 bytes does not return (HsReadC2), so c2 is full.
C2Compared == hsResult # "none" /\ hsLog # <<>> /\ hsLog[Len(hsLog)] = "readC2"

\* The random block the server sent in S1, as it went to the socket.
SentRandom == SubSeq(out, 10, 1 + HandshakeLen)

\* C1: once C0 = 0x03, C1 and a full 1536-byte C2 have been read, the
\* handshake succeeds exactly when bytes [8..1536) of C2 equal the random
\* block sent in S1: a C2 changed in one of the bytes [8..1536) (or all
\* zero) fails, a C2 changed in one of the bytes [0..8) succeeds.
C1_AckCheck ==
    C2Compared =>
        /\ (hsResult = "ok") <=> (SubSeq(c2, 9, HandshakeLen) = SentRandom)
        /\ peer.tamper \in 9..(HandshakeLen + 1) => hsResult = "err"
        /\ peer.tamper \in 0..8 => hsResult = "ok"

\* A C2 whose byte 8, the first compared one, was changed has been refused.
C1_Witness == C2Compared /\ peer.tamper = 9 /\ hsResult = "err"

\* C2: when C0 was read without an I/O error and is not 0x03, receiveHandshake
\* returns an error to serve. (The peer has sent its C0 and the goroutine is
\* past the read of it: the byte was there to read.)
C2_BadVersionReturnsError ==
    (peer.stage # "start" /\ peer.c0 # RTMPVersion /\ pc # "readC0") => hsResult = "err"

\* C3: once receiveHandshake has returned an error the socket is closed and
\* no chunk is read or decoded, no command dispatched, no reply written.
C3_HandshakeFailureFatal ==
    hsResult = "err" =>
        /\ closed
        /\ pc \notin {"recv_header", "recv_payload"}
        /\ chunkLog = <<>>
        /\ emitLog = <<>>

\* Step a is in the log before every occurrence of step b.
Before(a, b) ==
    \A i \in DOMAIN hsLog : hsLog[i] = b => \E j \in 1..(i - 1) : hsLog[j] = a

Logged(step) == \E i \in DOMAIN hsLog : hsLog[i] = step

\* Bytes the handshake has written so far (buffered or on the socket).
Written == Len(bufw) + Len(out)

Replied == {i \in DOMAIN chunkLog : chunkLog[i].replied}

FirstOnStream(i) == \A j \in 1..(i - 1) : chunkLog[j].csid # chunkLog[i].csid

\* C6: a format 1, 2 or 3 chunk that is the first chunk on its chunk stream
\* id is rejected, whatever was received on other chunk stream ids.
C6_FirstCompressedRejected ==
    \A i \in DOMAIN chunkLog :
        (chunkLog[i].fmt # 0 /\ FirstOnStream(i)) => chunkLog[i].result = "err"

\* The header state after chunks j..upto of chunk stream csid alone, from p.
RECURSIVE StreamReplay(_, _, _, _)
StreamReplay(csid, j, upto, p) ==
    IF j > upto THEN p
    ELSE IF chunkLog[j].csid # csid THEN StreamReplay(csid, j + 1, upto, p)
    ELSE StreamReplay(csid, j + 1, upto,
                      ReadMessageHeader(p, chunkLog[j].fmt, chunkLog[j].hdr))

\* The four reconstructed fields of a header state.
Reconstructed(p) == <<p.prvIncMsgTs, p.prvIncMsgLen, p.prvIncMsgTypId, p.prvIncMsgStrmId>>

\* The chunks of chunk i's stream up to chunk i: a format 0 chunk first, then
\* formats 0, 1 and 2 only, chunk i itself compressed and its header read.
CompressedOnOwnStream(i) ==
    /\ chunkLog[i].fmt \in {1, 2}
    /\ Len(chunkLog[i].hdr) = MessageHeaderLen(chunkLog[i].fmt)
    /\ \E j \in 1..(i - 1) :
           /\ chunkLog[j].csid = chunkLog[i].csid
           /\ chunkLog[j].fmt = 0
           /\ FirstOnStream(j)
    /\ \A j \in 1..i : chunkLog[j].csid = chunkLog[i].csid => chunkLog[j].fmt \in {0, 1, 2}

\* C7: what is reconstructed for a compressed chunk on a chunk stream depends
\* on the earlier chunks of that stream only: it is what the chunks of that
\* stream alone give.
C7_PerStreamState ==
    \A i \in DOMAIN chunkLog :
        CompressedOnOwnStream(i) =>
            Reconstructed(chunkLog[i].prv)
                = Reconstructed(StreamReplay(chunkLog[i].csid, 1, i, NoPrv))

\* C8: a message goes to AMF0 decoding and dispatch only when the payload
\* bytes received equal its declared length; never more are received.
C8_CompleteBeforeDispatch ==
    \A i \in DOMAIN chunkLog :
        /\ chunkLog[i].passed => chunkLog[i].got = chunkLog[i].prv.prvIncMsgLen
        /\ chunkLog[i].result # "err" => chunkLog[i].got <= chunkLog[i].prv.prvIncMsgLen

\* What the reader makes of emitted bytes: the basic header, then the
\* format-0 message header, then the payload of the declared length.
Reassembled(bytes, bh, p) ==
    [csid |-> bh.ChunkStreamId, ts |-> p.prvIncMsgTs, typ |-> p.prvIncMsgTypId,
     msid |-> p.prvIncMsgStrmId, payload |-> Take(Drop(bytes, 12), p.prvIncMsgLen)]

Reassemble(bytes) ==
    Reassembled(bytes, ChunkBasicHeaderOf(Take(bytes, 1)),
                readType0MessageHeader(NoPrv, Take(Drop(bytes, 1), 11)))

\* C9: the chunks emitted for a message re-assemble to the same message.
C9_ChunkRoundTrip ==
    \A i \in DOMAIN emitLog :
        /\ Len(emitLog[i].bytes) >= 12
        /\ Reassemble(emitLog[i].bytes)
               = [csid |-> emitLog[i].csid, ts |-> emitLog[i].ts, typ |-> emitLog[i].typ,
                  msid |-> emitLog[i].msid, payload |-> emitLog[i].payload]

SameParameters(e, f) ==
    /\ e.csid = f.csid
    /\ e.msid = f.msid
    /\ e.typ = f.typ
    /\ Len(e.payload) = Len(f.payload)
    /\ e.ts = f.ts

\* C10: the second of two consecutive emitted messages with the same chunk
\* stream, message stream id, length, type and timestamp delta goes out as a
\* format-3 chunk, and a format-3 chunk received right after a format-0 chunk
\* of the same chunk stream is accepted.
C10_Format3AfterFormat0 ==
    /\ \A i \in 2..Len(emitLog) :
           (emitLog[i].bytes # <<>> /\ SameParameters(emitLog[i - 1], emitLog[i]))
               => emitLog[i].bytes[1] \div 64 = 3
    /\ \A i \in 2..Len(chunkLog) :
           (/\ chunkLog[i].fmt = 3
            /\ chunkLog[i - 1].fmt = 0
            /\ chunkLog[i - 1].result = "ok"
            /\ chunkLog[i - 1].csid = chunkLog[i].csid)
               => chunkLog[i].result # "err"

(***************************************************************************)
(* Chunk size and message size, checked under SizeSpec.                    *)
(***************************************************************************)
\* Chunk j carried a complete Set Chunk Size message that receiveChunk accepted.
IsSetChunkSize(j) ==
    /\ chunkLog[j].result = "ok"
    /\ chunkLog[j].csid = 2
    /\ chunkLog[j].prv.prvIncMsgTypId = 1
    /\ chunkLog[j].prv.prvIncMsgStrmId = 0
    /\ chunkLog[j].prv.prvIncMsgLen = 4
    /\ chunkLog[j].got = 4

\* The inbound chunk size chunk i is to be parsed with: the payload of the
\* last Set Chunk Size message before it, 128 when there is none.
InboundChunkSize(i) ==
    LET before == {j \in 1..(i - 1) : IsSetChunkSize(j)} IN
    IF before = {} THEN 128
    ELSE BEUint32(chunkLog[CHOOSE j \in before : \A k \in before : k <= j].data)

\* C11: every chunk is parsed with the inbound chunk size in force: 128 until
\* a Set Chunk Size message has been received, from the chunk after that
\* message on its payload N; no chunk has more payload bytes read than that.
C11_SetChunkSize ==
    \A i \in DOMAIN chunkLog : chunkLog[i].got <= InboundChunkSize(i)

\* Caps a server may be configured with that a 24-bit length can exceed.
MessageSizeCaps == {65536, 4194304}

\* C12: a header that declares a message length above the cap ends the
\* receive path in an error before it comes to the payload: receiveChunk
\* never stands at its payload Read with such a length, and the chunk is
\* logged as an error with no payload byte read.
C12_MessageSizeCap ==
    \A cap \in MessageSizeCaps :
        /\ (pc = "recv_payload" => prv.prvIncMsgLen <= cap)
        /\ \A i \in DOMAIN chunkLog :
               (chunkLog[i].prv.prvIncMsgLen # Nil /\ chunkLog[i].prv.prvIncMsgLen > cap)
                   => (chunkLog[i].result = "err" /\ chunkLog[i].got = 0)

(***************************************************************************)
(* Timestamps, checked under TimestampSpec.                                *)
(***************************************************************************)
\* receiveChunk read the whole message header of chunk i.
HeaderRead(i) ==
    /\ Len(chunkLog[i].hdr) = MessageHeaderLen(chunkLog[i].fmt)
    /\ (chunkLog[i].fmt = 3 => chunkLog[i].result # "err")

\* The 24-bit timestamp (format 0) or delta (formats 1, 2) field of chunk i.
TimeField(i) ==
    chunkLog[i].hdr[1] * 65536 + chunkLog[i].hdr[2] * 256 + chunkLog[i].hdr[3]

\* The delta chunk i stands for: its field, or the stored delta for format 3.
DeltaOf(i) == IF chunkLog[i].fmt = 3 THEN chunkLog[i - 1].prv.prvIncMsgTsD ELSE TimeField(i)

\* C13: for a format 1, 2 or 3 chunk the stored timestamp is the timestamp
\* stored before it plus the delta, modulo 2^24 (0xFFFFFE and 5 give 3), and
\* a stored timestamp is always below 2^24.
C13_TimestampDelta ==
    \A i \in DOMAIN chunkLog :
        /\ (i > 1 /\ chunkLog[i].fmt # 0 /\ HeaderRead(i)) =>
               /\ chunkLog[i].prv.prvIncMsgTs
                      = (chunkLog[i - 1].prv.prvIncMsgTs + DeltaOf(i)) % 16777216
               /\ (chunkLog[i - 1].prv.prvIncMsgTs = 16777214 /\ DeltaOf(i) = 5)
                      => chunkLog[i].prv.prvIncMsgTs = 3
        /\ chunkLog[i].prv.prvIncMsgTs < 16777216

\* Timestamp 0xFFFFFE, then a format-2 chunk with delta 5 that gave 3, then a
\* format-3 chunk that gave 8.
C13_Witness ==
    /\ Len(chunkLog) = 3
    /\ chunkLog[1].prv.prvIncMsgTs = 16777214
    /\ chunkLog[2].fmt = 2
    /\ chunkLog[2].prv.prvIncMsgTs = 3
    /\ chunkLog[3].fmt = 3
    /\ chunkLog[3].result = "ok"
    /\ chunkLog[3].prv.prvIncMsgTs = 8

\* What chunk i stored from its field: the timestamp or the delta.
StoredTime(i) ==
    IF chunkLog[i].fmt = 0 THEN chunkLog[i].prv.prvIncMsgTs ELSE chunkLog[i].prv.prvIncMsgTsD

\* C14: when the 24-bit field of a format 0, 1 or 2 header is 0xFFFFFF the
\* value stored as timestamp (or delta) is that of the 4-byte extended field
\* behind the header, never 0xFFFFFF itself; otherwise it is the field.
C14_ExtendedTimestamp ==
    \A i \in DOMAIN chunkLog :
        (chunkLog[i].fmt # 3 /\ HeaderRead(i)) =>
            IF TimeField(i) = 16777215
            THEN StoredTime(i) # 16777215 /\ StoredTime(i) = BEUint32(PeerExtended)
            ELSE StoredTime(i) = TimeField(i)

(***************************************************************************)
(* The basic header, checked under BasicHeaderSpec.                        *)
(***************************************************************************)
\* The chunk stream id the table gives for the bytes b of a basic header.
TableStreamId(b) ==
    IF b[1] % 64 >= 2 THEN b[1] % 64
    ELSE IF b[1] % 64 = 0 THEN b[2] + 64
    ELSE b[3] * 256 + b[2] + 64

\* The length of the basic header that starts with b0.
TableLength(b0) == IF b0 % 64 >= 2 THEN 1 ELSE IF b0 % 64 = 0 THEN 2 ELSE 3

\* C15: once receiveChunkBasicHeader has returned a header, its format is
\* the high 2 bits of the first byte, its chunk stream id is what the table
\* gives for the 1-, 2- or 3-byte form, and exactly the bytes of that form
\* were taken from the input.
C15_BasicHeaderTable ==
    (call.fn = "receiveChunkBasicHeader" /\ pc = "recv_header") =>
        /\ basicHeader.ChunkMessageHeaderFormat = call.args[1] \div 64
        /\ basicHeader.ChunkStreamId = TableStreamId(call.args)
        /\ Len(bufr) + Len(sock) + Len(wire) = 3 - TableLength(call.args[1])

(***************************************************************************)
(* The basic header writer, checked under WriterSpec.                      *)
(***************************************************************************)
\* The length of the shortest basic header that holds chunk stream id.
MinimumLength(id) == IF id < 64 THEN 1 ELSE IF id < 320 THEN 2 ELSE 3

\* C16: writeChunkBasicHeader with a format in 0..3 and a chunk stream id in
\* 2..65599 returns no error and writes the shortest encoding; with any
\* other argument it returns an error and writes nothing.
C16_BasicHeaderWriter ==
    (call.fn = "writeChunkBasicHeader" /\ call.ret # "none") =>
        IF call.args[1] <= 3 /\ call.args[2] >= 2 /\ call.args[2] <= 65599
        THEN call.ret = "nil" /\ Len(bufw) = MinimumLength(call.args[2])
        ELSE call.ret = "err" /\ bufw = <<>>

(***************************************************************************)
(* Byte order of the format-0 message header, checked under ChunkSpec.     *)
(***************************************************************************)
\* A 32-bit integer read little-endian from 4 bytes.
LittleEndian(b) == b[1] + b[2] * 256 + b[3] * 65536 + b[4] * 16777216

\* C17: of a format-0 message header that was read, the message stream id
\* is bytes [7..11) as a little-endian integer, the timestamp bytes [0..3)
\* and the length bytes [3..6) as big-endian integers.
C17_StreamIdLittleEndian ==
    \A i \in DOMAIN chunkLog :
        (chunkLog[i].fmt = 0 /\ Len(chunkLog[i].hdr) = 11) =>
            /\ chunkLog[i].prv.prvIncMsgStrmId = LittleEndian(SubSeq(chunkLog[i].hdr, 8, 11))
            /\ chunkLog[i].prv.prvIncMsgTs
                   = chunkLog[i].hdr[1] * 65536 + chunkLog[i].hdr[2] * 256 + chunkLog[i].hdr[3]
            /\ chunkLog[i].prv.prvIncMsgLen
                   = chunkLog[i].hdr[4] * 65536 + chunkLog[i].hdr[5] * 256 + chunkLog[i].hdr[6]

(***************************************************************************)
(* Commands and replies, checked under CommandSpec.                        *)
(***************************************************************************)
\* Emitted message i has a message of type typ before it.
EmittedBefore(i, typ) == \E j \in 1..(i - 1) : emitLog[j].typ = typ

\* C18: every _result reply (type 20) the server emits comes after a Window
\* Acknowledgement Size message (type 5, 4-byte payload), a Set Peer
\* Bandwidth message (type 6, 5-byte payload) and a User Control message
\* (type 4), emitted in this order.
C18_ControlBeforeResult ==
    \A i \in DOMAIN emitLog :
        emitLog[i].typ = 20 =>
            \E a \in 1..(i - 1), b \in 1..(i - 1), c \in 1..(i - 1) :
                /\ a < b
                /\ b < c
                /\ emitLog[a].typ = 5 /\ Len(emitLog[a].payload) = 4
                /\ emitLog[b].typ = 6 /\ Len(emitLog[b].payload) = 5
                /\ emitLog[c].typ = 4

RecognizedCommands == {StrConnect} \cup RecognizedWithId

\* The replies a command with transaction id tId may get, as messages.
ResultsFor(tId) == { AMF0MsgMarshalBinary(ResultMsg(tId, order)).b : order \in StatusOrders }

\* The message of chunk i, decoded to u, is a recognized command with a
\* number as element 1.
CommandWithId(i, u) ==
    /\ chunkLog[i].passed
    /\ chunkLog[i].got = chunkLog[i].prv.prvIncMsgLen
    /\ u.st = "ok"
    /\ Len(u.m) >= 2
    /\ u.m[1].t = "string"
    /\ u.m[1].v \in RecognizedCommands
    /\ u.m[2].t = "number"

\* The position in emitLog of the reply to chunk i.
ReplyIndex(i) == Cardinality({j \in 1..i : chunkLog[j].replied})

\* Chunk i, a command decoded to u, got a reply that echoes its element 1.
EchoedTo(i, u) ==
    CommandWithId(i, u) =>
        /\ chunkLog[i].replied
        /\ emitLog[ReplyIndex(i)].payload \in ResultsFor(u.m[2].v)

\* C19: every recognized command with transaction id t gets exactly one
\* _result reply, and element 1 of that reply is t.
C19_ResultEchoesTransactionId ==
    /\ \A i \in DOMAIN chunkLog : EchoedTo(i, AMF0MsgUnmarshalBinary(chunkLog[i].data))
    /\ Len(emitLog) = Cardinality({j \in DOMAIN chunkLog : chunkLog[j].replied})

\* C20: a message of type 1..6 is emitted on chunk stream 2 with message
\* stream id 0; a command message (type 20) is emitted on chunk stream 3,
\* never on chunk stream 2, in the call of the writers and on the wire.
C20_ChunkStreamAssignment ==
    \A i \in DOMAIN emitLog :
        /\ emitLog[i].typ \in 1..6 => (emitLog[i].csid = 2 /\ emitLog[i].msid = 0)
        /\ emitLog[i].typ = 20 =>
               /\ emitLog[i].csid = 3
               /\ emitLog[i].bytes # <<>> => emitLog[i].bytes[1] % 64 = 3

(***************************************************************************)
(* The AMF0 properties, checked under AMFSpec.                             *)
(***************************************************************************)
\* A string of the value, or a key of an object in it, has 0xFFFF bytes or more.
RECURSIVE TooLong(_)
TooLong(v) ==
    IF v.t = "string" THEN Len(v.v) >= 65535
    ELSE IF v.t = "object" THEN
        \E i \in DOMAIN v.v : Len(v.v[i].k) >= 65535 \/ TooLong(v.v[i].v)
    ELSE FALSE

HasTooLong(m) == \E i \in DOMAIN m : TooLong(m[i])

\* The decoded value d is the value v handed to the encoder: the same type
\* and the same value, an object being the same keys with the same values.
RECURSIVE SameValue(_, _)
SameValue(v, d) ==
    /\ d.t = v.t
    /\ IF v.t = "object" THEN
           /\ DOMAIN d.v = {v.v[i].k : i \in DOMAIN v.v}
           /\ \A i \in DOMAIN v.v : SameValue(v.v[i].v, d.v[v.v[i].k])
       ELSE d.v = v.v

\* UnmarshalBinary has returned for the bytes MarshalBinary gave for a message
\* whose strings and keys are all shorter than 0xFFFF.
RoundTripDone ==
    /\ pc = "done"
    /\ call.fn = "AMF0Msg.UnmarshalBinary"
    /\ call.of # <<>>
    /\ ~HasTooLong(MarshalArgs(call.of[1]))

\* C21: for a message M of numbers, booleans, strings, nulls and objects
\* (nested ones too) whose strings and keys are shorter than 0xFFFF bytes,
\* MarshalBinary succeeds and UnmarshalBinary of its bytes succeeds and gives
\* M back, element by element, objects as maps of the same keys and values.
C21_AMF0RoundTrip ==
    /\ (pc = "done" /\ call.fn = "AMF0Msg.MarshalBinary" /\ ~HasTooLong(MarshalArgs(call.args))) =>
           ~call.ret.err
    /\ RoundTripDone =>
           /\ call.ret.st = "ok"
           /\ Len(call.ret.m) = Len(MarshalArgs(call.of[1]))
           /\ \A i \in DOMAIN call.ret.m : SameValue(MarshalArgs(call.of[1])[i], call.ret.m[i])

\* C22: for every byte slice UnmarshalBinary returns, with or without an
\* error: it does not panic, whatever the place the slice is cut at.
C22_DecoderNeverPanics ==
    (pc = "done" /\ call.fn = "AMF0Msg.UnmarshalBinary") => call.ret.st \in {"ok", "err"}

\* The 2-byte big-endian length field at b[at..at+1] (1-based) holds the
\* length of str, and str follows it.
LengthFieldExact(b, at, str) ==
    /\ Len(b) >= at + 1 + Len(str)
    /\ b[at] * 256 + b[at + 1] = Len(str)
    /\ SubSeq(b, at + 2, at + 1 + Len(str)) = str

\* The first string or key of the first value of m is written with its exact
\* length; the encoding b starts with that value.
FirstLengthExact(m, b) ==
    IF m = <<>> THEN b = <<>>
    ELSE IF m[1].t = "string" THEN b[1] = 2 /\ LengthFieldExact(b, 2, m[1].v)
    ELSE IF m[1].t = "object" /\ m[1].v # <<>> THEN
        /\ b[1] = 3
        /\ LengthFieldExact(b, 2, m[1].v[1].k)
        /\ m[1].v[1].v.t = "string" =>
               /\ b[4 + Len(m[1].v[1].k)] = 2
               /\ LengthFieldExact(b, 5 + Len(m[1].v[1].k), m[1].v[1].v.v)
    ELSE TRUE

RECURSIVE Alone(_, _)
Alone(c, k) ==
    IF k = 0 THEN NewConn(c.rwc)
    ELSE receiveChunkOn([Alone(c, k - 1) EXCEPT !.in = c.log[k].chunk], c.log[k].order)

\* The bytes read, the prior-header state, the bytes written and the state
\* of the task and of the socket are the same in c and a.
SameConn(c, a) ==
    /\ c.read = a.read
    /\ c.prv = a.prv
    /\ c.out = a.out
    /\ c.task = a.task
    /\ c.closed = a.closed

C25_CancelAbortsBlockedRead ==
    srv.ctx = "cancelled" =>
        /\ \A i \in DOMAIN chunkLog : i > srv.handled => chunkLog[i].result # "ok"
        /\ pc = "done" => closed

(***************************************************************************)
(* The accept loop, checked under ServeSpec.                               *)
(***************************************************************************)
\* The delay of the k-th temporary error in a row: 5 ms doubled k - 1 times,
\* 1 s at most.
BackoffDelay(k) == Min(FirstDelay * 2 ^ (k - 1), MaxDelay)

\* C26: the k-th temporary Accept error in a row is followed by a sleep of
\* 5 ms doubled k - 1 times and of 1 s at most; a successful Accept sets the
\* delay to 0; Serve ends only by returning the non-temporary error of
\* Accept, the listener closed; no connection task ends it.
C26_ServeBackoff ==
    /\ srv.run > 0 => (srv.slept = BackoffDelay(srv.run) /\ srv.tempDelay = srv.slept)
    /\ srv.run = 0 => srv.tempDelay = 0
    /\ srv.pc \in {"accept", "returned"}
    /\ srv.pc = "returned" => (srv.ret = "e" /\ srv.listener = "closed")


(***************************************************************************)
(* Messages of several chunks, checked under SizeSpec.                     *)
(***************************************************************************)
\* The payload bytes gathered for the message of chunk i's chunk stream
\* before chunk i: those of the chunks of that stream since the last one
\* that completed a message.
RECURSIVE Accumulated(_, _)
Accumulated(i, j) ==
    IF j = 0 THEN 0
    ELSE IF chunkLog[j].csid # chunkLog[i].csid THEN Accumulated(i, j - 1)
    ELSE LET sum == Accumulated(j, j - 1) + chunkLog[j].got IN
         IF sum >= chunkLog[j].prv.prvIncMsgLen THEN 0 ELSE sum

\* What is left to read of the message chunk i belongs to.
Remaining(i) == chunkLog[i].prv.prvIncMsgLen - Accumulated(i, i - 1)

\* C27: a message longer than the inbound chunk size is taken in as several
\* chunks: each accepted chunk contributes exactly min(chunk size, remaining)
\* payload bytes, so that its chunk stream is Idle again exactly when the
\* declared length has been gathered.
C27_MultiChunkPayload ==
    \A i \in DOMAIN chunkLog :
        chunkLog[i].result = "ok" =>
            chunkLog[i].got = Min(InboundChunkSize(i), Remaining(i))


(***************************************************************************)
(* The basic header written and read back, checked under LoopbackSpec.     *)
(***************************************************************************)
\* C28: for every format 0..3 and chunk stream id 2..65599,
\* writeChunkBasicHeader succeeds, and receiveChunkBasicHeader gives the same
\* format and id back from the bytes written, reading exactly those bytes.
C28_BasicHeaderRoundTrip ==
    /\ pc = "done" => call.ret = "nil"
    /\ pc = "recv_header" =>
           /\ basicHeader.ChunkMessageHeaderFormat = call.args[1]
           /\ basicHeader.ChunkStreamId = call.args[2]
           /\ sock = <<>>
           /\ bufr = <<>>


(***************************************************************************)
(* What a compressed header leaves alone, checked under ChunkSpec.         *)
(***************************************************************************)
\* Chunk i, not the first, has format f and its header was read without an
\* error.
HeaderOfFormat(i, f) == i > 1 /\ chunkLog[i].fmt = f /\ HeaderRead(i)

\* C29: a format 1 header that was read leaves the stored message stream id
\* as it was; a format 2 header leaves the stored length, type id and message
\* stream id; a format 3 header leaves the length, the type id, the message
\* stream id and the delta, and moves the timestamp on by that delta.
C29_HeaderFrame ==
    \A i \in DOMAIN chunkLog :
        /\ HeaderOfFormat(i, 1) =>
               chunkLog[i].prv.prvIncMsgStrmId = chunkLog[i - 1].prv.prvIncMsgStrmId
        /\ HeaderOfFormat(i, 2) =>
               /\ chunkLog[i].prv.prvIncMsgLen = chunkLog[i - 1].prv.prvIncMsgLen
               /\ chunkLog[i].prv.prvIncMsgTypId = chunkLog[i - 1].prv.prvIncMsgTypId
               /\ chunkLog[i].prv.prvIncMsgStrmId = chunkLog[i - 1].prv.prvIncMsgStrmId
        /\ HeaderOfFormat(i, 3) =>
               /\ chunkLog[i].prv.prvIncMsgLen = chunkLog[i - 1].prv.prvIncMsgLen
               /\ chunkLog[i].prv.prvIncMsgTypId = chunkLog[i - 1].prv.prvIncMsgTypId
               /\ chunkLog[i].prv.prvIncMsgStrmId = chunkLog[i - 1].prv.prvIncMsgStrmId
               /\ chunkLog[i].prv.prvIncMsgTsD = chunkLog[i - 1].prv.prvIncMsgTsD
               /\ chunkLog[i].prv.prvIncMsgTs
                      = (chunkLog[i - 1].prv.prvIncMsgTs + chunkLog[i - 1].prv.prvIncMsgTsD)
                            % 16777216

\* A format 0 chunk with a message stream id other than 0, then a format 1
\* chunk that changed the type id, then a format 3 chunk, all accepted.
C29_Witness ==
    /\ Len(chunkLog) = 3
    /\ chunkLog[1].fmt = 0
    /\ chunkLog[1].prv.prvIncMsgStrmId # 0
    /\ chunkLog[2].fmt = 1
    /\ chunkLog[2].result = "ok"
    /\ chunkLog[2].prv.prvIncMsgTypId # chunkLog[1].prv.prvIncMsgTypId
    /\ chunkLog[3].fmt = 3
    /\ chunkLog[3].result = "ok"
    /\ chunkLog[3].prv.prvIncMsgTs = 110



\* Every byte the server has written so far, flushed or still in its buffer.
ServerWritten == out \o bufw

\* The place of S2 in what the server writes: behind S0 and S1.
S2First == 2 + HandshakeLen
S2Last == 1 + 2 * HandshakeLen

Type0Returned(r) == call.fn = "writeType0ChunkMessageHeader" /\ call.ret = r

\* The 24-bit timestamp field of the header written holds 0xFFFFFF.
TimestampFieldFull == Len(bufw) >= 3 /\ SubSeq(bufw, 1, 3) = <<255, 255, 255>>

\* The 4 bytes behind the 11-byte header hold ts, big-endian.
ExtendedTimestampFollows(ts) ==
    Len(bufw) = 15 /\ SubSeq(bufw, 12, 15) = PutUint32(ts)

\* C31: a header written by writeType0ChunkMessageHeader whose 24-bit
\* timestamp field holds 0xFFFFFF is followed by the 4-byte big-endian
\* extended timestamp, and for a timestamp of 0xFFFFFF or more the field
\* holds 0xFFFFFF and the full timestamp follows.
C31_ExtendedTimestampWritten ==
    Type0Returned("nil") =>
        /\ TimestampFieldFull => ExtendedTimestampFollows(call.args[1])
        /\ call.args[1] >= 16777215 =>
               TimestampFieldFull /\ ExtendedTimestampFollows(call.args[1])


(***************************************************************************)
(* The reserved chunk stream ids, checked under HeadersSpec.               *)
(***************************************************************************)
\* A header writer has returned for the chunk stream id cs.
WriterReturnedFor(fn, cs) ==
    /\ call.fn = fn
    /\ call.ret # "none"
    /\ call.args[IF fn = "writeChunkBasicHeader" THEN 2 ELSE 5] = cs

\* C32: the chunk stream id receiveChunkBasicHeader returns is at least 2
\* whatever the bytes, and writeChunkBasicHeader and
\* writeType0ChunkMessageHeader called with chunk stream id 0 or 1 return an
\* error and write nothing.
C32_ReservedChunkStreams ==
    /\ (call.fn = "receiveChunkBasicHeader" /\ pc = "recv_header") =>
           basicHeader.ChunkStreamId >= 2
    /\ \A fn \in {"writeChunkBasicHeader", "writeType0ChunkMessageHeader"} :
           \A cs \in {0, 1} :
               WriterReturnedFor(fn, cs) => call.ret = "err" /\ bufw = <<>>

\* writeType0ChunkMessageHeader has refused chunk stream id 1 for a command
\* message whose other arguments are good.
C32_Witness ==
    /\ WriterReturnedFor("writeType0ChunkMessageHeader", 1)
    /\ call.args = <<0, 4, 20, 0, 1>>
    /\ call.ret = "err"


\* The arguments for which the header must be refused: a protocol control
\* message off message stream 0 or off chunk stream 2, a message of another
\* known type on chunk stream 2 or below, a type that is not known, a length
\* of more than 3 bytes.
RefusedArguments(msgLen, msgType, msgStrmId, chunkStreamId) ==
    \/ msgType \in 1..6 /\ (msgStrmId # 0 \/ chunkStreamId # 2)
    \/ msgType \in ({8, 9, 22} \cup 15..20) /\ chunkStreamId <= 2
    \/ msgType \notin (1..6 \cup {8, 9, 22} \cup 15..20)
    \/ msgLen > 16777215

C34_ScanReturnsObjectLength ==
    (pc = "done" /\ call.fn = "scanForAMF0ObjectEnd") =>
        call.ret.st = "ok" /\ call.ret.n = call.of[1]


(***************************************************************************)
(* The framing of the replies, checked under CommandSpec.                  *)
(***************************************************************************)
\* The bytes b a reply put on the wire are one well-framed format-0 chunk: a
\* basic header, the 11 bytes of the format-0 message header, and as many
\* payload bytes as the length field of that header says.
WellFramed(b) ==
    LET h == BasicHeaderLen(b[1]) IN
    /\ Len(b) >= h + 11
    /\ BEUint24(SubSeq(b, h + 4, h + 6)) = Len(b) - (h + 11)

\* C35: a reply that writes a basic header of format 0 writes the 11-byte
\* format-0 message header behind it, whose length field is the number of
\* payload bytes that follow; a reply writes nothing otherwise.
C35_RepliesWellFramed ==
    \A i \in DOMAIN emitLog :
        (emitLog[i].bytes # <<>> /\ emitLog[i].bytes[1] \div 64 = 0) =>
            WellFramed(emitLog[i].bytes)


(***************************************************************************)
(* What a peer can do to the process, checked under ConnsSpec.             *)
(***************************************************************************)
\* C36: whatever its peer sends or fails to send, the serve task of a
\* connection is running or has returned with its own socket closed; it
\* never panics, so the process with its accept loop and the tasks of the
\* other connections goes on running.
C36_PeerCannotCrash ==
    /\ srv.pc # "crashed"
    /\ \A i \in DOMAIN srv.conns :
           /\ srv.conns[i].task \in {"running", "returned"}
           /\ srv.conns[i].task = "returned" => srv.conns[i].closed


(***************************************************************************)
(* The segmentation of the peer's bytes, checked under Spec.               *)
(***************************************************************************)
\* The peer has sent a correct C0, C1 and C2 and has not closed.
CorrectPeer ==
    /\ peer.stage = "c2"
    /\ peer.c0 = RTMPVersion
    /\ peer.tamper = 0
    /\ ~peerClosed

\* receiveHandshake is over: it has returned or panicked.
HandshakeOver == \A i \in DOMAIN HandshakeSteps : pc # HandshakeSteps[i]

\* C37: the handshake with a peer that sends a correct C0, C1 and C2
\* succeeds, in however many segments the network delivers its blocks.
C37_SegmentationIndependent ==
    (CorrectPeer /\ HandshakeOver) => hsResult = "ok"


\* The message of chunk i, complete and decoded to u, is a command of type
\* 20 whose name is one of FCPublish, releaseStream, createStream, publish
\* and whose element 1 is missing or is not a number.
CommandWithoutId(i, u) ==
    /\ chunkLog[i].prv.prvIncMsgTypId = 20
    /\ chunkLog[i].got = chunkLog[i].prv.prvIncMsgLen
    /\ u.st = "ok"
    /\ Len(u.m) >= 1
    /\ u.m[1].t = "string"
    /\ u.m[1].v \in {StrFCPublish, StrReleaseStream, StrCreateStream, StrPublish}
    /\ (Len(u.m) < 2 \/ u.m[2].t # "number")

\* receiveChunk returned on chunk i, with an error or without, and wrote no
\* reply.
ReturnedUnanswered(i) ==
    /\ chunkLog[i].result \in {"ok", "err"}
    /\ ~chunkLog[i].replied

\* C38: on a recognized command whose element 1 is missing or is not a
\* number, receiveChunk returns (an error, or nothing with the command
\* ignored): it does not panic and writes no reply.
C38_CommandWithoutIdHandled ==
    \A i \in DOMAIN chunkLog :
        CommandWithoutId(i, AMF0MsgUnmarshalBinary(chunkLog[i].data)) => ReturnedUnanswered(i)


(***************************************************************************)
(* Failed header reads, checked under ChunkSpec.                           *)
(***************************************************************************)
\* receiveChunk returned an error on chunk i before it had a message: its
\* message header was refused for missing prior state or was read short.
HeaderFailed(i) == chunkLog[i].result = "err" /\ ~chunkLog[i].passed

\* The header state before chunk i: the one the chunk before it left, or
\* the one of a new connection.
StateBefore(i) == IF i = 1 THEN NoPrv ELSE chunkLog[i - 1].prv

\* C39: a message header that is refused or read short leaves the stored
\* timestamp, delta, length, type id and message stream id as they were
\* before the call.
C39_FailedHeaderKeepsState ==
    /\ \A i \in DOMAIN chunkLog : HeaderFailed(i) => chunkLog[i].prv = StateBefore(i)
    /\ (chunkLog # <<>> /\ HeaderFailed(Len(chunkLog))) => prv = StateBefore(Len(chunkLog))

\* A header was read short, some of its bytes taken, behind a chunk that had
\* stored a length.
C39_Witness ==
    \E i \in DOMAIN chunkLog :
        /\ i > 1
        /\ chunkLog[i - 1].result = "ok"
        /\ chunkLog[i - 1].prv.prvIncMsgLen > 0
        /\ HeaderFailed(i)
        /\ chunkLog[i].hdr # <<>>


\* What the function returns for b when it is taken whole.
ReturnedWhole(fn, b) ==
    IF fn = "AMF0Msg.UnmarshalBinary" THEN AMF0MsgUnmarshalBinary(b).st
    ELSE IF fn = "AMF0Object.UnmarshalBinary" THEN AMF0ObjectUnmarshalBinary(b, 0, Len(b)).st
    ELSE scanForAMF0ObjectEnd(b, 0, Len(b)).st

\* The loops taken one iteration at a time return what the functions return.
LoopsReturnTheSame == pc = "done" => call.ret = ReturnedWhole(call.fn, call.args)

\* C40: in AMF0Msg.UnmarshalBinary, AMF0Object.UnmarshalBinary and
\* scanForAMF0ObjectEnd every loop iteration that does not return leaves the
\* cursor strictly greater than it found it, the null key branch and the
\* nested object included, so a call makes at most len(b) iterations.
C40_DecodingTerminates ==
    /\ [][(pc = "loop" /\ pc' = "loop") => call'.i > call.i]_vars
    /\ [](pc \in {"loop", "done"} => call.iters <= Len(call.args) /\ call.i >= call.iters)

\* AMF0Object.UnmarshalBinary returned nil after three iterations through the
\* null key branch.
C40_Witness ==
    /\ pc = "done"
    /\ call.fn = "AMF0Object.UnmarshalBinary"
    /\ call.args = <<3, 0, 0, 0, 0, 0, 0, 0, 9>>
    /\ call.ret = "ok"
    /\ call.iters = 3

====
